---- MODULE Spec2Model ----
(***************************************************************************)
(* Succinct Range Filter (SuRF): key truncation, the LOUDS-DENSE builder,  *)
(* the trie iterator and the SuRF queries, as implemented in Lavode/surf.  *)
(*                                                                         *)
(* A key is a sequence of bytes (naturals 0..255).  A bitmap is a record   *)
(* [Capacity, length, dataLen, bits]: bits is the set of indices whose bit *)
(* is 1, dataLen is len(data) in 64-bit words.                             *)
(***************************************************************************)
EXTENDS Integers, Sequences, FiniteSets, TLC

\* ------------------------------------------------------------------------
\* Bounds of the model
\* ------------------------------------------------------------------------

\* longest key handed to New / Build
MaxKeyLen == 3

\* largest number of keys handed to New / Build
MaxKeys == 2

\* longest query key handed to Lookup, lookupOrGreater, RangeLookup, Count
MaxQueryLen == 2

\* largest number of keys handed to Truncate on its own
MaxTruncateKeys == 3

\* largest number of nodes a tight memory budget has room for
MaxBudgetNodes == 3

\* largest capacity, in 64-bit words, of a bitmap used on its own
MaxBitmapWords == 2

\* largest count asked of Select besides the counts at word boundaries
MaxNth == 4

\* longest run of ErrEndOfTrie results a caller of Next is followed through
MaxEndCalls == 2

\* the byte values keys and queries are drawn from: the lowest and the
\* highest edge label
Bytes == {0, 255}

\* ------------------------------------------------------------------------
\* Program constants
\* ------------------------------------------------------------------------

\* number of edge labels of a node, the width of a node's block in D-Labels
\* and D-HasChild
BlockSize == 256

\* bits per word of a bitmap
WordSize == 64

\* memory budget in bits used by the builder tests and the demos
BUILDER_MEMORY_LIMIT == 80000000

\* ------------------------------------------------------------------------
\* Small helpers
\* ------------------------------------------------------------------------

SetMin(S) == CHOOSE x \in S : \A y \in S : x <= y

SetMax(S) == CHOOSE x \in S : \A y \in S : x >= y

\* key[:n]
Prefix(key, n) == SubSeq(key, 1, n)

\* a is a prefix of b (possibly equal)
IsPrefixOf(a, b) == Len(a) <= Len(b) /\ Prefix(b, Len(a)) = a

IsProperPrefixOf(a, b) == Len(a) < Len(b) /\ Prefix(b, Len(a)) = a

Range(s) == {s[i] : i \in 1..Len(s)}

\* all sequences over S of length lo..hi
SeqsOfLen(S, lo, hi) == UNION {[1..n -> S] : n \in lo..hi}

\* ------------------------------------------------------------------------
\* louds.Key
\* ------------------------------------------------------------------------

\* Key.Less: lexicographic order, the shorter of two keys with an equal
\* shared prefix is the lesser
Less(key, other) ==
    LET minLength == IF Len(other) < Len(key) THEN Len(other) ELSE Len(key)
        diff == {i \in 1..minLength : key[i] # other[i]}
    IN  IF diff # {}
        THEN key[SetMin(diff)] < other[SetMin(diff)]
        ELSE Len(key) < Len(other)

\* key <= other, as RangeLookup and Count test it:
\* Less(key, other) || bytes.Equal(key, other)
LessEq(key, other) == Less(key, other) \/ key = other

\* a faulty FirstDifferenceAt that compares the shared bytes only and takes
\* a key and a longer key it is a prefix of for equal
FirstDifferenceAtShared(a, b) ==
    LET n == IF Len(a) < Len(b) THEN Len(a) ELSE Len(b)
        diff == {i \in 1..n : a[i] # b[i]}
    IN  IF diff # {} THEN <<TRUE, SetMin(diff) - 1>> ELSE <<FALSE, 0>>

\* FirstDifferenceAt: <<differ, index>> with a 0-based index
FirstDifferenceAt(a, b) ==
    LET n == IF Len(a) < Len(b) THEN Len(a) ELSE Len(b)
        diff == {i \in 1..n : a[i] # b[i]}
    IN  IF diff # {} THEN <<TRUE, SetMin(diff) - 1>>
        ELSE IF Len(a) = Len(b) THEN <<FALSE, 0>>
        ELSE <<TRUE, n>>

\* a faulty loop body of Truncate that leaves out the n++: the prefix ends
\* before the first byte that differs from the neighbours
TruncateAtShort(keys, i) ==
    LET key == keys[i]
        before == IF i # 1 THEN FirstDifferenceAt(key, keys[i - 1]) ELSE <<TRUE, 0>>
        after == IF i # Len(keys) THEN FirstDifferenceAt(key, keys[i + 1]) ELSE <<TRUE, 0>>
        firstDifferenceBefore == IF before[1] THEN before[2] ELSE Len(key)
        firstDifferenceAfter == IF after[1] THEN after[2] ELSE Len(key)
        n == IF firstDifferenceAfter > firstDifferenceBefore
             THEN firstDifferenceAfter ELSE firstDifferenceBefore
    IN  Prefix(key, n)

\* the prefix Truncate keeps of keys[i] (1-based i)
TruncateAt(keys, i) ==
    LET key == keys[i]
        before == IF i # 1 THEN FirstDifferenceAt(key, keys[i - 1]) ELSE <<TRUE, 0>>
        after == IF i # Len(keys) THEN FirstDifferenceAt(key, keys[i + 1]) ELSE <<TRUE, 0>>
        firstDifferenceBefore == IF before[1] THEN before[2] ELSE Len(key)
        firstDifferenceAfter == IF after[1] THEN after[2] ELSE Len(key)
        n == IF firstDifferenceAfter > firstDifferenceBefore
             THEN firstDifferenceAfter ELSE firstDifferenceBefore
    IN  IF n < Len(key) THEN Prefix(key, n + 1) ELSE Prefix(key, n)

\* Truncate: every key cut to the shortest prefix telling it from its
\* neighbours
Truncate(keys) == [i \in 1..Len(keys) |-> TruncateAt(keys, i)]

RECURSIVE InsertSorted(_, _)
InsertSorted(sorted, key) ==
    IF sorted = <<>> THEN <<key>>
    ELSE IF Less(key, Head(sorted)) THEN <<key>> \o sorted
    ELSE <<Head(sorted)>> \o InsertSorted(Tail(sorted), key)

RECURSIVE SortFunc(_)
\* slices.SortFunc(keys, Less): the keys in ascending order, duplicates kept
SortFunc(keys) ==
    IF keys = <<>> THEN <<>>
    ELSE InsertSorted(SortFunc(Prefix(keys, Len(keys) - 1)), keys[Len(keys)])

\* maxKeyLength
maxKeyLength(keys) ==
    IF keys = <<>> THEN 0 ELSE SetMax({Len(keys[i]) : i \in 1..Len(keys)})

\* ------------------------------------------------------------------------
\* bitops and bitmap.Bitmap.  A 64-bit word is the set of the offsets
\* (0 = most significant bit) whose bit is 1; & is \cap and | is \cup.
\* ------------------------------------------------------------------------

\* LeadingOnesMask: the first n bits are 1, n coerced to [0, 64]
LeadingOnesMask(n) ==
    LET m == IF n > WordSize THEN WordSize ELSE IF n < 0 THEN 0 ELSE n
    IN  0..(m - 1)

\* TrailingOnesMask: the last n bits are 1, n coerced to [0, 64]
TrailingOnesMask(n) ==
    LET m == IF n > WordSize THEN WordSize ELSE IF n < 0 THEN 0 ELSE n
    IN  (WordSize - m)..(WordSize - 1)

\* OnesMask: the first leading and the last trailing bits are 1
OnesMask(leading, trailing) ==
    LeadingOnesMask(leading) \cup TrailingOnesMask(trailing)

\* SingleOneMask: the single bit idx is 1, idx coerced to [0, 63]
SingleOneMask(idx) ==
    LET m == IF idx < 0 THEN 0 ELSE IF idx > WordSize - 1 THEN WordSize - 1 ELSE idx
    IN  {m}

\* bm.data[w]
Word(bm, w) == {b % WordSize : b \in {x \in bm.bits : x \div WordSize = w}}

\* bits.OnesCount64
OnesCount64(word) == Cardinality(word)

\* bitmap.New
BitmapNew(size, capacity) ==
    LET dataSize == (size \div WordSize) + (IF size % WordSize # 0 THEN 1 ELSE 0)
    IN  [Capacity |-> capacity, length |-> dataSize * WordSize,
         dataLen |-> dataSize, bits |-> {}]

\* bitmap.New panics: make([]uint64, dataSize, dataCapacity) with a length
\* above the capacity ends the program (makeslice: cap out of range)
BitmapNewPanics(size, capacity) ==
    LET dataSize == (size \div WordSize) + (IF size % WordSize # 0 THEN 1 ELSE 0)
        dataCapacity == (capacity \div WordSize)
                        + (IF capacity % WordSize # 0 THEN 1 ELSE 0)
    IN  dataSize > dataCapacity

\* Bitmap.resize: grow data with zero words so that bit - 1 is accessible
resize(bm, bit) ==
    IF bit < bm.length THEN bm
    ELSE LET clipped == IF bit > bm.Capacity THEN bm.Capacity ELSE bit
             newLength == (clipped \div WordSize)
                          + (IF clipped % WordSize # 0 THEN 1 ELSE 0)
             additionalUints == newLength - bm.dataLen
         IN  [bm EXCEPT !.dataLen = IF additionalUints > 0 THEN newLength ELSE @,
                        !.length = newLength * WordSize]

\* Bitmap.Set
Set(bm, bit) ==
    IF bit < 0 \/ bit >= bm.Capacity THEN [bm |-> bm, err |-> "ErrBitmap"]
    ELSE LET grown == IF bit >= bm.length THEN resize(bm, bit + 1) ELSE bm
             idx == bit \div WordSize
             offset == bit % WordSize
             mask == SingleOneMask(offset)
         IN  [bm |-> [grown EXCEPT !.bits = @ \cup {idx * WordSize + o : o \in mask}],
              err |-> "nil"]

\* a faulty Unset that clears the bit and every bit after it in its word
UnsetTail(bm, bit) ==
    IF bit < 0 \/ bit >= bm.Capacity THEN [bm |-> bm, err |-> "ErrBitmap"]
    ELSE LET grown == IF bit >= bm.length THEN resize(bm, bit + 1) ELSE bm
             idx == bit \div WordSize
             offset == bit % WordSize
             mask == LeadingOnesMask(offset)
         IN  [bm |-> [grown EXCEPT !.bits = {x \in @ : x \div WordSize # idx
                                                       \/ x % WordSize \in mask}],
              err |-> "nil"]

\* Bitmap.Unset: the word of the bit is and-ed with 64 ones but for a zero at
\* the bit's offset
Unset(bm, bit) ==
    IF bit < 0 \/ bit >= bm.Capacity THEN [bm |-> bm, err |-> "ErrBitmap"]
    ELSE LET grown == IF bit >= bm.length THEN resize(bm, bit + 1) ELSE bm
             idx == bit \div WordSize
             offset == bit % WordSize
             mask == OnesMask(offset, WordSize - offset - 1)
         IN  [bm |-> [grown EXCEPT !.bits = {x \in @ : x \div WordSize # idx
                                                       \/ x % WordSize \in mask}],
              err |-> "nil"]

\* Bitmap.Get: reading beyond length (within Capacity) grows the bitmap
Get(bm, bit) ==
    IF bit < 0 \/ bit >= bm.Capacity THEN [bm |-> bm, val |-> 0, err |-> "ErrBitmap"]
    ELSE LET grown == IF bit >= bm.length THEN resize(bm, bit + 1) ELSE bm
             idx == bit \div WordSize
             offset == bit % WordSize
             mask == SingleOneMask(offset)
         IN  [bm |-> grown,
              val |-> IF Word(grown, idx) \cap mask # {} THEN 1 ELSE 0,
              err |-> "nil"]

\* a faulty word loop of Rank that leaves out the mask of the last word and
\* counts the whole word that holds idx
RankLoopWord(bm, checkOnes, idx) ==
    LET lastStart == (idx \div WordSize) * WordSize
        fullOnes == Cardinality({b \in bm.bits : b < lastStart})
        lastOnes == OnesCount64(Word(bm, lastStart \div WordSize))
    IN  IF checkOnes THEN fullOnes + lastOnes
        ELSE (lastStart - fullOnes) + (idx - lastStart + 1 - lastOnes)

\* the word loop of Bitmap.Rank, "for i := 0; i <= idx; i += 64", summed up:
\* every iteration but the last has i + 63 < idx and counts a full word, the
\* last one (i = lastStart) counts the first idx - i + 1 bits of its word
RankLoop(bm, checkOnes, idx) ==
    LET lastStart == (idx \div WordSize) * WordSize
        fullOnes == Cardinality({b \in bm.bits : b < lastStart})
        lastOnes == OnesCount64(Word(bm, lastStart \div WordSize)
                                \cap LeadingOnesMask(idx - lastStart + 1))
    IN  IF checkOnes THEN fullOnes + lastOnes
        ELSE (lastStart - fullOnes) + (idx - lastStart + 1 - lastOnes)

\* a faulty Rank that leaves the bit at idx out: the bits of value val in
\* [0, idx - 1]
RankBelow(bm, val, idx) ==
    IF idx < 0 \/ idx > bm.length - 1 THEN [val |-> 0, err |-> "ErrBitmap"]
    ELSE IF ~(val = 0 \/ val = 1) THEN [val |-> 0, err |-> "ErrBitmap"]
    ELSE [val |-> IF idx = 0 THEN 0 ELSE RankLoop(bm, val = 1, idx - 1),
          err |-> "nil"]

\* Bitmap.Rank: number of bits of value val in [0, idx]
Rank(bm, val, idx) ==
    IF idx < 0 \/ idx > bm.length - 1 THEN [val |-> 0, err |-> "ErrBitmap"]
    ELSE IF ~(val = 0 \/ val = 1) THEN [val |-> 0, err |-> "ErrBitmap"]
    ELSE [val |-> RankLoop(bm, val = 1, idx), err |-> "nil"]

\* additionalCount of Select: the bits of the wanted value in the word that
\* starts at idx
SelectAdditional(bm, checkOnes, idx) ==
    IF checkOnes THEN OnesCount64(Word(bm, idx \div WordSize))
    ELSE WordSize - OnesCount64(Word(bm, idx \div WordSize))

RECURSIVE SelectWords(_, _, _, _, _)
\* "for idx = 0; idx < bm.length; idx += 64" of Select from idx on: it
\* breaks at the word that reaches nth, and ends with idx = length when no
\* word does
SelectWords(bm, checkOnes, nth, count, idx) ==
    IF ~(idx < bm.length) THEN [idx |-> idx, count |-> count]
    ELSE IF count + SelectAdditional(bm, checkOnes, idx) >= nth
    THEN [idx |-> idx, count |-> count]
    ELSE SelectWords(bm, checkOnes, nth,
                     count + SelectAdditional(bm, checkOnes, idx), idx + WordSize)

\* the bits of the wanted value among the bits lo..hi of bm; bits beyond
\* the length read 0 once Get has grown the bitmap
SelectCountIn(bm, checkOnes, lo, hi) ==
    IF checkOnes THEN Cardinality({b \in bm.bits : lo <= b /\ b <= hi})
    ELSE (hi - lo + 1) - Cardinality({b \in bm.bits : lo <= b /\ b <= hi})

\* "for count < nth" of Select from idx on, summed up.  Every iteration
\* reads bit idx with bm.Get and moves on by one, so the loop ends at the
\* first bit that brings count to nth (idx - 1 is returned), or with the
\* error of Get at idx = Capacity; Get has grown the bitmap up to the last
\* bit it read when that one lies beyond length
SelectBits(bm, checkOnes, nth, count, idx) ==
    IF ~(count < nth) THEN [bm |-> bm, val |-> idx - 1, err |-> "nil"]
    ELSE LET hits == {i \in idx..(bm.Capacity - 1) :
                         /\ (i \in bm.bits) = checkOnes
                         /\ count + SelectCountIn(bm, checkOnes, idx, i) = nth}
         IN  IF hits # {}
             THEN [bm |-> IF SetMin(hits) >= bm.length
                          THEN resize(bm, SetMin(hits) + 1) ELSE bm,
                   val |-> SetMin(hits), err |-> "nil"]
             ELSE [bm |-> IF idx < bm.Capacity /\ bm.Capacity - 1 >= bm.length
                          THEN resize(bm, bm.Capacity) ELSE bm,
                   val |-> 0, err |-> "ErrBitmap"]

\* a faulty Select that starts the bit by bit scan one bit late
SelectScanLate(bm, val, nth, p) ==
    IF p.idx > bm.length THEN [bm |-> bm, val |-> 0, err |-> "ErrBitmap"]
    ELSE SelectBits(bm, val = 1, nth, p.count, p.idx + 1)

\* Select after its word loop ended in p: "ran out of data" is tested with
\* idx > bm.length
SelectScan(bm, val, nth, p) ==
    IF p.idx > bm.length THEN [bm |-> bm, val |-> 0, err |-> "ErrBitmap"]
    ELSE SelectBits(bm, val = 1, nth, p.count, p.idx)

\* Bitmap.Select: [bm, val, err], the index of the nth bit of value val
Select(bm, val, nth) ==
    IF ~(val = 0 \/ val = 1) THEN [bm |-> bm, val |-> 0, err |-> "ErrBitmap"]
    ELSE IF nth <= 0 \/ nth > bm.length
    THEN [bm |-> bm, val |-> 0, err |-> "ErrBitmap"]
    ELSE SelectScan(bm, val, nth, SelectWords(bm, val = 1, nth, 0, 0))

\* ------------------------------------------------------------------------
\* dense.Builder.  A builder value b is a record of the three bitmaps, the
\* task queue and currentNodeId; currentTask is the last element of tasks
\* (appendNodeTask points it at the task it appends, and every use follows
\* an appendNodeTask of the same level).
\* ------------------------------------------------------------------------

\* NewBuilder
NewBuilder(memory_limit) ==
    LET memory_unit == memory_limit \div (BlockSize + BlockSize + 1)
    IN  [Labels |-> BitmapNew(BlockSize, BlockSize * memory_unit),
         HasChild |-> BitmapNew(BlockSize, BlockSize * memory_unit),
         IsPrefixKey |-> BitmapNew(1, memory_unit),
         tasks |-> <<>>,
         currentNodeId |-> 0]

\* NewBuilder panics when one of its three bitmap.New calls does
NewBuilderPanics(memory_limit) ==
    LET memory_unit == memory_limit \div (BlockSize + BlockSize + 1)
    IN  \/ BitmapNewPanics(BlockSize, BlockSize * memory_unit)
        \/ BitmapNewPanics(1, memory_unit)

labelOffset(b) == b.currentNodeId * BlockSize

\* a faulty offset into HasChild that takes every node for the root
hasChildOffsetRoot(b) == 0

hasChildOffset(b) == b.currentNodeId * BlockSize

\* a faulty offset into IsPrefixKey that takes a node for 256 bits wide, as
\* it is in Labels and HasChild
isPrefixKeyOffsetBlock(b) == b.currentNodeId * BlockSize

isPrefixKeyOffset(b) == b.currentNodeId

\* appendNodeTask
appendNodeTask(b) ==
    [b EXCEPT !.tasks = Append(@, [keys |-> <<>>, isPrefixKey |-> FALSE])]

\* addEdge
addEdge(b, edge) ==
    LET r == Set(b.Labels, labelOffset(b) + edge)
    IN  [b |-> [b EXCEPT !.Labels = r.bm], err |-> r.err]

\* setHasChild
setHasChild(b, edge) ==
    LET r == Set(b.HasChild, hasChildOffset(b) + edge)
    IN  [b |-> [b EXCEPT !.HasChild = r.bm], err |-> r.err]

\* setIsPrefixKey
setIsPrefixKey(b) ==
    LET r == Set(b.IsPrefixKey, isPrefixKeyOffset(b))
    IN  [b |-> [b EXCEPT !.IsPrefixKey = r.bm], err |-> r.err]

\* a faulty initializeNode that allocates nothing: the node's extent grows
\* only as far as the bits set in it
initializeNodeLazy(b) == [b |-> b, err |-> "nil"]

\* initializeNode: reading the last bit of the node's extent allocates it
initializeNode(b) ==
    LET l == Get(b.Labels, labelOffset(b) + (BlockSize - 1))
        h == Get(b.HasChild, hasChildOffset(b) + (BlockSize - 1))
        p == Get(b.IsPrefixKey, isPrefixKeyOffset(b))
    IN  IF l.err # "nil" THEN [b |-> [b EXCEPT !.Labels = l.bm], err |-> l.err]
        ELSE IF h.err # "nil"
             THEN [b |-> [b EXCEPT !.Labels = l.bm, !.HasChild = h.bm], err |-> h.err]
        ELSE [b |-> [b EXCEPT !.Labels = l.bm, !.HasChild = h.bm,
                              !.IsPrefixKey = p.bm],
              err |-> p.err]

\* a faulty test that takes the edge of every key for a new one
NewEdgeAlways(st, edge) == TRUE

\* the state of the key loop of one task: st carries the builder b, ret
\* ("running", or what Build returned: "nil" / an error) and the node's
\* nodeHasEdges and mostRecentEdge.  The key's edge is new to the node when
\* the node has no edge yet or its most recent edge is another one.
NewEdge(st, edge) == ~st.nodeHasEdges \/ st.mostRecentEdge # edge

\* the end of the key loop's body: h is what setHasChild returned; an error
\* of setHasChild makes Build return nil, else the key joins the child's task
BuildKeyHasChild(key, edge, h) ==
    IF h.err # "nil"
    THEN [b |-> h.b, ret |-> "nil", nodeHasEdges |-> TRUE, mostRecentEdge |-> edge]
    ELSE [b |-> [h.b EXCEPT !.tasks[Len(h.b.tasks)].keys = Append(@, key)],
          ret |-> "running", nodeHasEdges |-> TRUE, mostRecentEdge |-> edge]

\* the key loop's body once the edge and the child's task exist in b1: a key
\* that ends here marks the child's task a prefix key, a longer one gets
\* HasChild set
BuildKeyChild(d, key, b1) ==
    IF d = Len(key) - 1
    THEN [b |-> [b1 EXCEPT !.tasks[Len(b1.tasks)].isPrefixKey = TRUE],
          ret |-> "running", nodeHasEdges |-> TRUE, mostRecentEdge |-> key[d + 1]]
    ELSE BuildKeyHasChild(key, key[d + 1], setHasChild(b1, key[d + 1]))

\* the key loop's body after addEdge returned a (or was skipped for an edge
\* already there): an error is returned, else a new edge gets a task
BuildKeyAdded(st, d, key, a) ==
    IF a.err # "nil" THEN [st EXCEPT !.b = a.b, !.ret = a.err]
    ELSE BuildKeyChild(d, key, IF NewEdge(st, key[d + 1]) THEN appendNodeTask(a.b)
                               ELSE a.b)

\* the body of "for _, key := range task.keys" for one key; "edge :=
\* key[depth]" panics (index out of range) on a key of at most depth bytes
BuildKey(st, d, key) ==
    IF d >= Len(key) THEN [st EXCEPT !.ret = "panic"]
    ELSE BuildKeyAdded(st, d, key,
                       IF NewEdge(st, key[d + 1]) THEN addEdge(st.b, key[d + 1])
                       ELSE [b |-> st.b, err |-> "nil"])

RECURSIVE BuildKeys(_, _, _, _)
\* for _, key := range task.keys, from the i-th key on
BuildKeys(st, d, taskKeys, i) ==
    IF i > Len(taskKeys) \/ st.ret # "running" THEN st
    ELSE BuildKeys(BuildKey(st, d, taskKeys[i]), d, taskKeys, i + 1)

\* the end of a task: st is the state the key loop ended in
BuildTaskDone(st) ==
    IF st.ret # "running" THEN [b |-> st.b, ret |-> st.ret]
    ELSE [b |-> [st.b EXCEPT !.currentNodeId = @ + 1], ret |-> "running"]

\* a task after initializeNode returned init: the node's IsPrefixKey bit
\* (its error is dropped), then the key loop
BuildTaskInitialized(d, task, init) ==
    IF init.err # "nil" THEN [b |-> init.b, ret |-> init.err]
    ELSE BuildTaskDone(
             BuildKeys([b |-> IF task.isPrefixKey THEN setIsPrefixKey(init.b).b
                              ELSE init.b,
                        ret |-> "running", nodeHasEdges |-> FALSE,
                        mostRecentEdge |-> 0], d, task.keys, 1))

\* one iteration of "for i := 0; i < n; i++" of Build: the node of one task
BuildTask(b, d, task) ==
    IF Len(task.keys) = 0 THEN [b |-> b, ret |-> "running"]
    ELSE BuildTaskInitialized(d, task, initializeNode(b))

RECURSIVE BuildTasks(_, _, _, _)
\* the tasks i..n of the current level, in order
BuildTasks(r, d, i, n) ==
    IF i > n \/ r.ret # "running" THEN r
    ELSE BuildTasks(BuildTask(r.b, d, r.b.tasks[i]), d, i + 1, n)

\* the end of a level: its n tasks are discarded
BuildLevelDone(n, r) ==
    IF r.ret # "running" THEN r
    ELSE [b |-> [r.b EXCEPT !.tasks = SubSeq(@, n + 1, Len(@))], ret |-> "running"]

\* one iteration of "for depth := 0; depth < maxKeyLength(keys); depth++":
\* all tasks of the level, then the level's tasks are discarded
BuildLevel(b, d) ==
    BuildLevelDone(Len(b.tasks),
                   BuildTasks([b |-> b, ret |-> "running"], d, 1, Len(b.tasks)))

\* ------------------------------------------------------------------------
\* store.Iterator.  An iterator value is a record [NodeIndex, nodes,
\* nextEdge, edges, keyPrefix]; the three stacks are sequences with the top
\* last.  The iterator only points to the bitmaps, and Bitmap.Get may grow
\* them, so the operations work on a record w = [it, Labels, HasChild,
\* IsPrefixKey] and return it updated.
\* ------------------------------------------------------------------------

\* the zero Iterator over the three bitmaps (NewIterator, or the literal
\* Iterator{Labels, HasChild, IsPrefixKey})
NewIterator ==
    [NodeIndex |-> 0, nodes |-> <<>>, nextEdge |-> 0, edges |-> <<>>,
     keyPrefix |-> <<>>]

\* Stack.Pop leaves the rest of the stack; popping an empty stack panics
PopRest(stack) == Prefix(stack, Len(stack) - 1)

\* a faulty GoToChild that leaves out it.nodes.Push(it.NodeIndex)
GoToChildReadNoPush(w, edge, offset, l, h) ==
    IF l.err # "nil" THEN [w |-> [w EXCEPT !.Labels = l.bm], err |-> "ErrBitmap"]
    ELSE IF l.val # 1 THEN [w |-> [w EXCEPT !.Labels = l.bm], err |-> "ErrNoSuchEdge"]
    ELSE IF h.err # "nil"
    THEN [w |-> [w EXCEPT !.Labels = l.bm, !.HasChild = h.bm], err |-> "ErrBitmap"]
    ELSE IF h.val # 1
    THEN [w |-> [w EXCEPT !.Labels = l.bm, !.HasChild = h.bm], err |-> "ErrIsLeaf"]
    ELSE IF Rank(h.bm, 1, offset).err # "nil"
    THEN [w |-> [w EXCEPT !.Labels = l.bm, !.HasChild = h.bm], err |-> "ErrBitmap"]
    ELSE [w |-> [w EXCEPT !.Labels = l.bm, !.HasChild = h.bm,
                          !.it = [NodeIndex |-> Rank(h.bm, 1, offset).val,
                                  nodes |-> w.it.nodes,
                                  nextEdge |-> 0,
                                  edges |-> Append(w.it.edges, edge),
                                  keyPrefix |-> Append(w.it.keyPrefix, edge)]],
          err |-> "nil"]

\* GoToChild after its two reads: l is what Labels.Get(offset) returned and
\* h what HasChild.Get(offset) returned (made only when the label is set)
GoToChildRead(w, edge, offset, l, h) ==
    IF l.err # "nil" THEN [w |-> [w EXCEPT !.Labels = l.bm], err |-> "ErrBitmap"]
    ELSE IF l.val # 1 THEN [w |-> [w EXCEPT !.Labels = l.bm], err |-> "ErrNoSuchEdge"]
    ELSE IF h.err # "nil"
    THEN [w |-> [w EXCEPT !.Labels = l.bm, !.HasChild = h.bm], err |-> "ErrBitmap"]
    ELSE IF h.val # 1
    THEN [w |-> [w EXCEPT !.Labels = l.bm, !.HasChild = h.bm], err |-> "ErrIsLeaf"]
    ELSE IF Rank(h.bm, 1, offset).err # "nil"
    THEN [w |-> [w EXCEPT !.Labels = l.bm, !.HasChild = h.bm], err |-> "ErrBitmap"]
    ELSE [w |-> [w EXCEPT !.Labels = l.bm, !.HasChild = h.bm,
                          !.it = [NodeIndex |-> Rank(h.bm, 1, offset).val,
                                  nodes |-> Append(w.it.nodes, w.it.NodeIndex),
                                  nextEdge |-> 0,
                                  edges |-> Append(w.it.edges, edge),
                                  keyPrefix |-> Append(w.it.keyPrefix, edge)]],
          err |-> "nil"]

\* Iterator.GoToChild
GoToChild(w, edge) ==
    GoToChildRead(w, edge, BlockSize * w.it.NodeIndex + edge,
                  Get(w.Labels, BlockSize * w.it.NodeIndex + edge),
                  Get(w.HasChild, BlockSize * w.it.NodeIndex + edge))

\* the inner loop of Next after a successful GoToChild into the node of w:
\* p is what IsPrefixKey.Get(NodeIndex) returned.  A prefix key is returned;
\* otherwise the loop's post statement it.nextEdge++ runs on the new node
NextDived(w, p) ==
    IF p.err # "nil"
    THEN [w |-> [w EXCEPT !.IsPrefixKey = p.bm], done |-> TRUE, key |-> <<>>,
          err |-> p.err]
    ELSE IF p.val = 1
    THEN [w |-> [w EXCEPT !.IsPrefixKey = p.bm], done |-> TRUE,
          key |-> w.it.keyPrefix, err |-> "nil"]
    ELSE [w |-> [w EXCEPT !.IsPrefixKey = p.bm, !.it.nextEdge = @ + 1],
          done |-> FALSE, key |-> <<>>, err |-> "nil"]

\* a faulty loop body that returns a leaf's key without moving nextEdge past
\* the leaf
NextEdgeTriedStay(w, g) ==
    IF g.err = "ErrNoSuchEdge"
    THEN [w |-> [g.w EXCEPT !.it.nextEdge = @ + 1], done |-> FALSE,
          key |-> <<>>, err |-> "nil"]
    ELSE IF g.err = "ErrIsLeaf"
    THEN [w |-> g.w, done |-> TRUE,
          key |-> Append(w.it.keyPrefix, w.it.nextEdge), err |-> "nil"]
    ELSE IF g.err # "nil"
    THEN [w |-> g.w, done |-> TRUE, key |-> <<>>, err |-> g.err]
    ELSE NextDived(g.w, Get(g.w.IsPrefixKey, g.w.it.NodeIndex))

\* the body of the inner loop of Next, and its post statement it.nextEdge++
\* when the body neither returns nor panics; g is what
\* GoToChild(byte(nextEdge)) returned
NextEdgeTried(w, g) ==
    IF g.err = "ErrNoSuchEdge"
    THEN [w |-> [g.w EXCEPT !.it.nextEdge = @ + 1], done |-> FALSE,
          key |-> <<>>, err |-> "nil"]
    ELSE IF g.err = "ErrIsLeaf"
    THEN [w |-> [g.w EXCEPT !.it.nextEdge = @ + 1], done |-> TRUE,
          key |-> Append(w.it.keyPrefix, w.it.nextEdge), err |-> "nil"]
    ELSE IF g.err # "nil"
    THEN [w |-> g.w, done |-> TRUE, key |-> <<>>, err |-> g.err]
    ELSE NextDived(g.w, Get(g.w.IsPrefixKey, g.w.it.NodeIndex))

\* one iteration of the inner loop of Next (nextEdge < 256)
NextEdgeStep(w) == NextEdgeTried(w, GoToChild(w, w.it.nextEdge))

\* the labels of the current node at or after nextEdge
LabelsFrom(w) ==
    {b - BlockSize * w.it.NodeIndex :
        b \in {x \in w.Labels.bits :
                  /\ BlockSize * w.it.NodeIndex + w.it.nextEdge <= x
                  /\ x < BlockSize * w.it.NodeIndex + BlockSize}}

\* a run of inner-loop iterations that all end in ErrNoSuchEdge: when the
\* node's block lies within the bitmap's length no Get grows it, and the run
\* only moves nextEdge to the next set label, or to 256 when there is none
SkipMissingEdges(w) ==
    IF BlockSize * w.it.NodeIndex + (BlockSize - 1) < w.Labels.length
    THEN [w EXCEPT !.it.nextEdge = SetMin(LabelsFrom(w) \cup {BlockSize})]
    ELSE w

\* a faulty ascent that rewinds the iterator to the root's first edge when it
\* returns ErrEndOfTrie
NextAscendRewind(w) ==
    IF w.it.NodeIndex = 0
    THEN [w |-> [w EXCEPT !.it.nextEdge = 0], done |-> TRUE, key |-> <<>>,
          err |-> "ErrEndOfTrie"]
    ELSE IF w.it.nodes = <<>> \/ w.it.edges = <<>> \/ w.it.keyPrefix = <<>>
    THEN [w |-> w, done |-> TRUE, key |-> <<>>, err |-> "panic"]
    ELSE [w |-> [w EXCEPT !.it = [NodeIndex |-> w.it.nodes[Len(w.it.nodes)],
                                  nodes |-> PopRest(w.it.nodes),
                                  nextEdge |-> w.it.edges[Len(w.it.edges)] + 1,
                                  edges |-> PopRest(w.it.edges),
                                  keyPrefix |-> PopRest(w.it.keyPrefix)]],
          done |-> FALSE, key |-> <<>>, err |-> "nil"]

\* a faulty ascent that returns the empty key, not ErrEndOfTrie, at the root
NextAscendEmptyKey(w) ==
    IF w.it.NodeIndex = 0
    THEN [w |-> w, done |-> TRUE, key |-> <<>>, err |-> "nil"]
    ELSE IF w.it.nodes = <<>> \/ w.it.edges = <<>> \/ w.it.keyPrefix = <<>>
    THEN [w |-> w, done |-> TRUE, key |-> <<>>, err |-> "panic"]
    ELSE [w |-> [w EXCEPT !.it = [NodeIndex |-> w.it.nodes[Len(w.it.nodes)],
                                  nodes |-> PopRest(w.it.nodes),
                                  nextEdge |-> w.it.edges[Len(w.it.edges)] + 1,
                                  edges |-> PopRest(w.it.edges),
                                  keyPrefix |-> PopRest(w.it.keyPrefix)]],
          done |-> FALSE, key |-> <<>>, err |-> "nil"]

\* the step of Next taken once the inner loop is exhausted (nextEdge = 256):
\* ErrEndOfTrie at the root, else one level up
NextAscend(w) ==
    IF w.it.NodeIndex = 0
    THEN [w |-> w, done |-> TRUE, key |-> <<>>, err |-> "ErrEndOfTrie"]
    ELSE IF w.it.nodes = <<>> \/ w.it.edges = <<>> \/ w.it.keyPrefix = <<>>
    THEN [w |-> w, done |-> TRUE, key |-> <<>>, err |-> "panic"]
    ELSE [w |-> [w EXCEPT !.it = [NodeIndex |-> w.it.nodes[Len(w.it.nodes)],
                                  nodes |-> PopRest(w.it.nodes),
                                  nextEdge |-> w.it.edges[Len(w.it.edges)] + 1,
                                  edges |-> PopRest(w.it.edges),
                                  keyPrefix |-> PopRest(w.it.keyPrefix)]],
          done |-> FALSE, key |-> <<>>, err |-> "nil"]

\* one step of Next from the state s: an iteration of the inner loop, or the
\* ascent when the inner loop is exhausted
NextStep(s) == IF s.it.nextEdge < BlockSize THEN NextEdgeStep(s) ELSE NextAscend(s)

RECURSIVE NextLoop(_)
\* Next goes on after the step that ended in r, unless that step returned
NextContinue(r) == IF r.done THEN r ELSE NextLoop(r.w)

\* the loops of Next, from the state w on, until it returns
NextLoop(w) == NextContinue(NextStep(SkipMissingEdges(w)))

\* Iterator.Next: [w, key, err] (and done = TRUE)
Next(w) == NextLoop(w)

\* ------------------------------------------------------------------------
\* store.SURF queries.  s is the record of the SuRF's three bitmaps
\* [Labels, HasChild, IsPrefixKey] (DenseLabels, DenseHasChild,
\* DenseIsPrefixKey); every result carries the bitmaps as the query left them.
\* ------------------------------------------------------------------------

\* the IsPrefixKey test that follows the loop of lookup: p is what
\* DenseIsPrefixKey.Get(it.NodeIndex) returned
lookupEnd(w, key, p) ==
    IF p.err # "nil"
    THEN [exists |-> FALSE, key |-> <<>>, w |-> [w EXCEPT !.IsPrefixKey = p.bm],
          err |-> p.err]
    ELSE IF p.val = 1
    THEN [exists |-> TRUE, key |-> key, w |-> [w EXCEPT !.IsPrefixKey = p.bm],
          err |-> "nil"]
    ELSE [exists |-> FALSE, key |-> <<>>, w |-> [w EXCEPT !.IsPrefixKey = p.bm],
          err |-> "nil"]

RECURSIVE lookupLoop(_, _, _)
\* a faulty loop body of lookup that hands ErrNoSuchEdge to its caller
\* instead of reporting the key absent
lookupTriedLeak(key, i, g) ==
    IF g.err = "ErrIsLeaf"
    THEN [exists |-> TRUE, key |-> Prefix(key, i + 1), w |-> g.w, err |-> "nil"]
    ELSE IF g.err # "nil"
    THEN [exists |-> FALSE, key |-> <<>>, w |-> g.w, err |-> g.err]
    ELSE lookupLoop(g.w, key, i + 1)

\* the body of the loop of lookup at the 0-based index i: g is what
\* it.GoToChild(key[i]) returned
lookupTried(key, i, g) ==
    IF g.err = "ErrNoSuchEdge"
    THEN [exists |-> FALSE, key |-> <<>>, w |-> g.w, err |-> "nil"]
    ELSE IF g.err = "ErrIsLeaf"
    THEN [exists |-> TRUE, key |-> Prefix(key, i + 1), w |-> g.w, err |-> "nil"]
    ELSE IF g.err # "nil"
    THEN [exists |-> FALSE, key |-> <<>>, w |-> g.w, err |-> g.err]
    ELSE lookupLoop(g.w, key, i + 1)

\* "for i := 0; i < len(key); i++" of lookup from the 0-based index i on,
\* and the IsPrefixKey test that follows the loop
lookupLoop(w, key, i) ==
    IF i < Len(key) THEN lookupTried(key, i, GoToChild(w, key[i + 1]))
    ELSE lookupEnd(w, key, Get(w.IsPrefixKey, w.it.NodeIndex))

\* SURF.lookup: [exists, key, w, err], w.it the iterator where lookup ended
lookup(s, key) ==
    lookupLoop([it |-> NewIterator, Labels |-> s.Labels, HasChild |-> s.HasChild,
                IsPrefixKey |-> s.IsPrefixKey], key, 0)

\* a faulty Lookup that takes a leaf reached before the end of the key for a
\* mismatch: it only reports keys whose every byte was walked
LookupWholeKey(key, l) ==
    [exists |-> l.exists /\ l.key = key, w |-> l.w, err |-> l.err]

\* a faulty Lookup that skips the IsPrefixKey test: it reports every key
\* whose walk ends on a node of the trie
LookupAnyNode(key, l) ==
    [exists |-> l.exists \/ (l.err = "nil" /\ l.w.it.keyPrefix = key),
     w |-> l.w, err |-> l.err]

\* what Lookup(key) returns when lookup(key) returned l: exists and the error
LookupResult(key, l) == [exists |-> l.exists, w |-> l.w, err |-> l.err]

\* SURF.Lookup: [exists, w, err]
Lookup(s, key) == LookupResult(key, lookup(s, key))

\* lookupOrGreater without a match: n is what it.Next() returned
lookupOrGreaterNext(n) ==
    IF n.err # "nil" THEN [key |-> <<>>, w |-> n.w, err |-> n.err]
    ELSE [key |-> n.key, w |-> n.w, err |-> "nil"]

\* lookupOrGreater after lookup returned l: a match is returned with
\* it.nextEdge++, else the key of it.Next()
lookupOrGreaterLooked(l) ==
    IF l.err # "nil" THEN [key |-> <<>>, w |-> l.w, err |-> l.err]
    ELSE IF l.exists
    THEN [key |-> l.key, w |-> [l.w EXCEPT !.it.nextEdge = @ + 1], err |-> "nil"]
    ELSE lookupOrGreaterNext(Next(l.w))

\* SURF.lookupOrGreater: [key, w, err]
lookupOrGreater(s, key) == lookupOrGreaterLooked(lookup(s, key))

\* a faulty RangeLookup that leaves out the ErrEndOfTrie test and compares
\* the empty key lookupOrGreater returned at the end of the trie with high
RangeLookupMatchedEnd(high, m) ==
    IF m.err # "nil" /\ m.err # "ErrEndOfTrie"
    THEN [exists |-> FALSE, w |-> m.w, err |-> m.err]
    ELSE [exists |-> Less(m.key, high) \/ m.key = high, w |-> m.w, err |-> "nil"]

\* RangeLookup after lookupOrGreater(low) returned m
RangeLookupMatched(high, m) ==
    IF m.err = "ErrEndOfTrie" THEN [exists |-> FALSE, w |-> m.w, err |-> "nil"]
    ELSE IF m.err # "nil" THEN [exists |-> FALSE, w |-> m.w, err |-> m.err]
    ELSE [exists |-> Less(m.key, high) \/ m.key = high, w |-> m.w, err |-> "nil"]

\* SURF.RangeLookup: [exists, w, err]
RangeLookup(s, low, high) == RangeLookupMatched(high, lookupOrGreater(s, low))

RECURSIVE CountLoop(_, _, _, _)
\* the loop body of Count after count++: n is what it.Next() returned
CountNext(n, highKey, count) ==
    IF n.err = "ErrEndOfTrie" THEN [count |-> count, w |-> n.w, err |-> "nil"]
    ELSE IF n.err # "nil" THEN [count |-> 0, w |-> n.w, err |-> "nil"]
    ELSE CountLoop(n.w, n.key, highKey, count)

\* "for curKey.Less(highKey) || bytes.Equal(curKey, highKey)" of Count
CountLoop(w, curKey, highKey, count) ==
    IF Less(curKey, highKey) \/ curKey = highKey
    THEN CountNext(Next(w), highKey, count + 1)
    ELSE [count |-> count, w |-> w, err |-> "nil"]

\* a faulty Count whose loop is not entered when the key lookupOrGreater
\* returned is high itself
CountMatchedBelow(high, m) ==
    IF m.err = "ErrEndOfTrie" THEN [count |-> 0, w |-> m.w, err |-> "nil"]
    ELSE IF m.err # "nil" THEN [count |-> 0, w |-> m.w, err |-> m.err]
    ELSE IF m.key = high THEN [count |-> 0, w |-> m.w, err |-> "nil"]
    ELSE CountLoop(m.w, m.key, high, 0)

\* Count after lookupOrGreater(low) returned m
CountMatched(high, m) ==
    IF m.err = "ErrEndOfTrie" THEN [count |-> 0, w |-> m.w, err |-> "nil"]
    ELSE IF m.err # "nil" THEN [count |-> 0, w |-> m.w, err |-> m.err]
    ELSE CountLoop(m.w, m.key, high, 0)

\* SURF.Count: [count, w, err]
Count(s, low, high) == CountMatched(high, lookupOrGreater(s, low))

\* ------------------------------------------------------------------------
\* Inputs
\* ------------------------------------------------------------------------

\* the keys New and Build are given: non-empty, at most MaxKeyLen bytes
KeyUniverse == SeqsOfLen(Bytes, 1, MaxKeyLen)

\* key lists in strictly ascending order (sorted, duplicate-free)
SortedKeyLists ==
    {l \in SeqsOfLen(KeyUniverse, 0, MaxKeys) :
        \A i \in 1..(Len(l) - 1) : Less(l[i], l[i + 1])}

\* key lists in any order, duplicates allowed
RawKeyLists == SeqsOfLen(KeyUniverse, 0, MaxKeys)

\* the key set of the paper, in the order the tests pass it to New:
\* farther tries fat trying fasten topper f splice tripper toy fas
PaperKeys ==
    << <<102, 97, 114, 116, 104, 101, 114>>, <<116, 114, 105, 101, 115>>,
       <<102, 97, 116>>, <<116, 114, 121, 105, 110, 103>>,
       <<102, 97, 115, 116, 101, 110>>, <<116, 111, 112, 112, 101, 114>>,
       <<102>>, <<115, 112, 108, 105, 99, 101>>,
       <<116, 114, 105, 112, 112, 101, 114>>, <<116, 111, 121>>,
       <<102, 97, 115>> >>

\* query keys of the paper-set tests: a fas fal fasa t trif tripper trz fa
\* fasi x sorry
PaperQueries ==
    { <<97>>, <<102, 97, 115>>, <<102, 97, 108>>, <<102, 97, 115, 97>>, <<116>>,
      <<116, 114, 105, 102>>, <<116, 114, 105, 112, 112, 101, 114>>,
      <<116, 114, 122>>, <<102, 97>>, <<102, 97, 115, 105>>, <<120>>,
      <<115, 111, 114, 114, 121>> }

\* [low, high] pairs of the paper-set tests: a-f a-fat fal-fat s-s tp-tq
\* tp-ts tripper-try trz-zarty r-s a-ezmatch
PaperRanges ==
    { << <<97>>, <<102>> >>, << <<97>>, <<102, 97, 116>> >>,
      << <<102, 97, 108>>, <<102, 97, 116>> >>, << <<115>>, <<115>> >>,
      << <<116, 112>>, <<116, 113>> >>, << <<116, 112>>, <<116, 115>> >>,
      << <<116, 114, 105, 112, 112, 101, 114>>, <<116, 114, 121>> >>,
      << <<116, 114, 122>>, <<122, 97, 114, 116, 121>> >>,
      << <<114>>, <<115>> >>,
      << <<97>>, <<101, 122, 109, 97, 116, 99, 104>> >> }

\* the query keys tried on a SuRF built from raw: the bounded queries and
\* the stored keys themselves; on the paper set the queries of its tests
QueryKeys(raw) ==
    IF raw = PaperKeys THEN PaperQueries \cup Range(raw)
    ELSE SeqsOfLen(Bytes, 0, MaxQueryLen) \cup Range(raw)

\* the [low, high] pairs tried on a SuRF built from raw
QueryRanges(raw) ==
    IF raw = PaperKeys THEN PaperRanges
    ELSE SeqsOfLen(Bytes, 0, MaxQueryLen) \X SeqsOfLen(Bytes, 0, MaxQueryLen)

\* the edge labels tried by GoToChild on a trie built from the keys ks
EdgeLabels(ks) == Bytes \cup UNION {Range(ks[i]) : i \in 1..Len(ks)}

\* ------------------------------------------------------------------------
\* State
\* ------------------------------------------------------------------------

VARIABLES
    pc,             \* where the program is: "new", "builder", "build", "built", ...
    rawKeys,        \* the keys handed to New
    memoryLimit,    \* the memory budget in bits
    keys,           \* the keys handed to Build (sorted and truncated by New)
    Labels,         \* D-Labels
    HasChild,       \* D-HasChild
    IsPrefixKey,    \* D-IsPrefixKey
    tasks,          \* Builder.tasks
    currentNodeId,  \* Builder.currentNodeId
    depth,          \* the loop variable of Build
    buildErr,       \* what Build returned
    bm,             \* a bitmap used on its own
    out,            \* the last call on bm and what it returned
    it,             \* the iterator the caller holds
    ret,            \* the last call on the iterator or the SuRF and its result
    fresh,          \* no GoToChild has moved it since it was created
    yielded         \* the keys Next returned on it while fresh

builderVars == <<Labels, HasChild, IsPrefixKey, tasks, currentNodeId, depth, buildErr>>

inputVars == <<rawKeys, memoryLimit, keys>>

iterVars == <<it, fresh, yielded>>

bitmapVars == <<bm, out>>

vars == <<pc, rawKeys, memoryLimit, keys, Labels, HasChild, IsPrefixKey, tasks,
          currentNodeId, depth, buildErr, it, ret, fresh, yielded, bm, out>>

\* the builder as a value
B == [Labels |-> Labels, HasChild |-> HasChild, IsPrefixKey |-> IsPrefixKey,
      tasks |-> tasks, currentNodeId |-> currentNodeId]

\* the caller's iterator with the bitmaps it points to
W == [it |-> it, Labels |-> Labels, HasChild |-> HasChild, IsPrefixKey |-> IsPrefixKey]

\* the SuRF's bitmaps
S == [Labels |-> Labels, HasChild |-> HasChild, IsPrefixKey |-> IsPrefixKey]

\* the record of a call: op and its arguments (key or low, high, edge), the
\* results (exists, val, count, err) and the iterator the call worked on, as
\* it left it (it)
Ret(op, key, high, edge, exists, val, count, err, iter) ==
    [op |-> op, key |-> key, high |-> high, edge |-> edge, exists |-> exists,
     val |-> val, count |-> count, err |-> err, it |-> iter]

NoRet == Ret("none", <<>>, <<>>, 0, FALSE, <<>>, 0, "nil", NewIterator)

\* what a call on the bitmap bm left: the operation, its arguments val (of
\* Rank and Select) and arg (the index, or nth of Select), the value
\* returned and the error
BitOut(op, val, arg, res, err) ==
    [op |-> op, val |-> val, arg |-> arg, res |-> res, err |-> err]

NoOut == BitOut("none", 0, 0, 0, "nil")

\* the part of every initial state that does not depend on the input
InitRest ==
    /\ bm = BitmapNew(0, 0)
    /\ out = NoOut
    /\ memoryLimit = BUILDER_MEMORY_LIMIT
    /\ Labels = NewBuilder(BUILDER_MEMORY_LIMIT).Labels
    /\ HasChild = NewBuilder(BUILDER_MEMORY_LIMIT).HasChild
    /\ IsPrefixKey = NewBuilder(BUILDER_MEMORY_LIMIT).IsPrefixKey
    /\ tasks = <<>>
    /\ currentNodeId = 0
    /\ depth = 0
    /\ buildErr = "nil"
    /\ it = NewIterator
    /\ ret = NoRet
    /\ fresh = TRUE
    /\ yielded = <<>>

\* a fresh builder (NewBuilder) about to Build a sorted, duplicate-free list
InitBuilder ==
    /\ pc = "builder"
    /\ keys \in SortedKeyLists
    /\ rawKeys = keys
    /\ InitRest

\* New about to be called with keys in any order, or with the paper's keys
InitNew ==
    /\ pc = "new"
    /\ rawKeys \in RawKeyLists \cup {PaperKeys}
    /\ keys = <<>>
    /\ InitRest

\* ------------------------------------------------------------------------
\* Construction
\* ------------------------------------------------------------------------

\* store.New up to the call of Build: sort, truncate, NewBuilder
New ==
    /\ pc = "new"
    /\ keys' = Truncate(SortFunc(rawKeys))
    /\ Labels' = NewBuilder(memoryLimit).Labels
    /\ HasChild' = NewBuilder(memoryLimit).HasChild
    /\ IsPrefixKey' = NewBuilder(memoryLimit).IsPrefixKey
    /\ tasks' = NewBuilder(memoryLimit).tasks
    /\ currentNodeId' = NewBuilder(memoryLimit).currentNodeId
    /\ pc' = IF NewBuilderPanics(memoryLimit) THEN "panic" ELSE "builder"
    /\ UNCHANGED bitmapVars
    /\ UNCHANGED <<rawKeys, memoryLimit, depth, buildErr, it, ret, fresh, yielded>>

\* Builder.Build before its loop: the task of the root holds all keys
Build ==
    /\ pc = "builder"
    /\ tasks' = [appendNodeTask(B).tasks EXCEPT ![Len(tasks) + 1].keys = keys]
    /\ depth' = 0
    /\ pc' = "build"
    /\ UNCHANGED bitmapVars
    /\ UNCHANGED <<inputVars, Labels, HasChild, IsPrefixKey, currentNodeId, buildErr,
                   it, ret, fresh, yielded>>

\* one iteration of the depth loop of Build; a return inside it ends Build
BuildDepth ==
    /\ pc = "build"
    /\ depth < maxKeyLength(keys)
    /\ \E r \in {BuildLevel(B, depth)} :
           /\ Labels' = r.b.Labels
           /\ HasChild' = r.b.HasChild
           /\ IsPrefixKey' = r.b.IsPrefixKey
           /\ tasks' = r.b.tasks
           /\ currentNodeId' = r.b.currentNodeId
           /\ IF r.ret = "running"
              THEN /\ depth' = depth + 1
                   /\ UNCHANGED <<pc, buildErr>>
              ELSE /\ pc' = IF r.ret = "nil" THEN "built"
                         ELSE IF r.ret = "panic" THEN "panic" ELSE "failed"
                   /\ buildErr' = r.ret
                   /\ UNCHANGED depth
    /\ UNCHANGED bitmapVars
    /\ UNCHANGED <<inputVars, it, ret, fresh, yielded>>

\* Build returns nil after the last depth; New hands the bitmaps to the SuRF
BuildReturn ==
    /\ pc = "build"
    /\ depth >= maxKeyLength(keys)
    /\ pc' = "built"
    /\ buildErr' = "nil"
    /\ UNCHANGED bitmapVars
    /\ UNCHANGED <<inputVars, Labels, HasChild, IsPrefixKey, tasks, currentNodeId,
                   depth, it, ret, fresh, yielded>>

\* ------------------------------------------------------------------------
\* Calls on the iterator
\* ------------------------------------------------------------------------

\* NewIterator over the built bitmaps
CallNewIterator ==
    /\ pc = "built"
    /\ it' = NewIterator
    /\ fresh' = TRUE
    /\ yielded' = <<>>
    /\ ret' = Ret("NewIterator", <<>>, <<>>, 0, FALSE, <<>>, 0, "nil", NewIterator)
    /\ UNCHANGED bitmapVars
    /\ UNCHANGED <<pc, inputVars, builderVars>>

\* it.GoToChild(edge)
CallGoToChild ==
    /\ pc = "built"
    /\ \E edge \in EdgeLabels(keys) :
          \E r \in {GoToChild(W, edge)} :
              /\ it' = r.w.it
              /\ Labels' = r.w.Labels
              /\ HasChild' = r.w.HasChild
              /\ IsPrefixKey' = r.w.IsPrefixKey
              /\ ret' = Ret("GoToChild", <<>>, <<>>, edge, FALSE, <<>>, 0, r.err,
                            r.w.it)
              /\ fresh' = (fresh /\ r.err # "nil")
              /\ yielded' = IF r.err = "nil" THEN <<>> ELSE yielded
    /\ UNCHANGED bitmapVars
    /\ UNCHANGED <<pc, inputVars, tasks, currentNodeId, depth, buildErr>>

\* it.Next()
CallNext ==
    /\ pc = "built"
    /\ \E r \in {Next(W)} :
           /\ it' = r.w.it
           /\ Labels' = r.w.Labels
           /\ HasChild' = r.w.HasChild
           /\ IsPrefixKey' = r.w.IsPrefixKey
           /\ ret' = Ret("Next", <<>>, <<>>, 0, FALSE, r.key, 0, r.err, r.w.it)
           /\ yielded' = IF fresh /\ r.err = "nil" THEN Append(yielded, r.key)
                         ELSE yielded
    /\ UNCHANGED bitmapVars
    /\ UNCHANGED <<pc, inputVars, tasks, currentNodeId, depth, buildErr, fresh>>

\* ------------------------------------------------------------------------
\* Calls on the SuRF
\* ------------------------------------------------------------------------

\* surf.Lookup(key)
CallLookup ==
    /\ pc = "built"
    /\ ret = NoRet
    /\ \E key \in QueryKeys(rawKeys) :
          \E r \in {Lookup(S, key)} :
              /\ Labels' = r.w.Labels
              /\ HasChild' = r.w.HasChild
              /\ IsPrefixKey' = r.w.IsPrefixKey
              /\ ret' = Ret("Lookup", key, <<>>, 0, r.exists, <<>>, 0, r.err,
                            r.w.it)
    /\ UNCHANGED bitmapVars
    /\ UNCHANGED <<pc, inputVars, tasks, currentNodeId, depth, buildErr, iterVars>>

\* surf.lookupOrGreater(key)
CallLookupOrGreater ==
    /\ pc = "built"
    /\ ret = NoRet
    /\ \E key \in QueryKeys(rawKeys) :
          \E r \in {lookupOrGreater(S, key)} :
              /\ Labels' = r.w.Labels
              /\ HasChild' = r.w.HasChild
              /\ IsPrefixKey' = r.w.IsPrefixKey
              /\ ret' = Ret("lookupOrGreater", key, <<>>, 0, FALSE, r.key, 0, r.err,
                            r.w.it)
    /\ UNCHANGED bitmapVars
    /\ UNCHANGED <<pc, inputVars, tasks, currentNodeId, depth, buildErr, iterVars>>

\* surf.RangeLookup(low, high)
CallRangeLookup ==
    /\ pc = "built"
    /\ ret = NoRet
    /\ \E q \in QueryRanges(rawKeys) :
          \E r \in {RangeLookup(S, q[1], q[2])} :
              /\ Labels' = r.w.Labels
              /\ HasChild' = r.w.HasChild
              /\ IsPrefixKey' = r.w.IsPrefixKey
              /\ ret' = Ret("RangeLookup", q[1], q[2], 0, r.exists, <<>>, 0, r.err,
                            r.w.it)
    /\ UNCHANGED bitmapVars
    /\ UNCHANGED <<pc, inputVars, tasks, currentNodeId, depth, buildErr, iterVars>>

\* surf.Count(low, high)
CallCount ==
    /\ pc = "built"
    /\ ret = NoRet
    /\ \E q \in QueryRanges(rawKeys) :
          \E r \in {Count(S, q[1], q[2])} :
              /\ Labels' = r.w.Labels
              /\ HasChild' = r.w.HasChild
              /\ IsPrefixKey' = r.w.IsPrefixKey
              /\ ret' = Ret("Count", q[1], q[2], 0, FALSE, <<>>, r.count, r.err,
                            r.w.it)
    /\ UNCHANGED bitmapVars
    /\ UNCHANGED <<pc, inputVars, tasks, currentNodeId, depth, buildErr, iterVars>>

\* the caller takes the result of a query; the SuRF is ready for the next
Return ==
    /\ pc = "built"
    /\ ret.op \in {"Lookup", "lookupOrGreater", "RangeLookup", "Count"}
    /\ ret' = NoRet
    /\ UNCHANGED bitmapVars
    /\ UNCHANGED <<pc, inputVars, builderVars, iterVars>>

\* ------------------------------------------------------------------------
\* Specifications
\* ------------------------------------------------------------------------

\* Builder.Build on a fresh builder
NextBuild == Build \/ BuildDepth \/ BuildReturn

SpecBuild == InitBuilder /\ [][NextBuild]_vars

\* an iterator over the bitmaps of a builder
NextIter == Build \/ BuildDepth \/ BuildReturn \/ CallNewIterator \/ CallGoToChild
            \/ CallNext

SpecIter == InitBuilder /\ [][NextIter]_vars

\* New and the queries on the SuRF it returns
NextSurf == New \/ Build \/ BuildDepth \/ BuildReturn \/ CallLookup
            \/ CallLookupOrGreater \/ CallRangeLookup \/ CallCount \/ Return

SpecSurf == InitNew /\ [][NextSurf]_vars

\* New and point lookups on the SuRF it returns
NextLookup == New \/ Build \/ BuildDepth \/ BuildReturn \/ CallLookup \/ Return

SpecLookup == InitNew /\ [][NextLookup]_vars

\* the keys of the store's callers: any byte string up to MaxKeyLen bytes,
\* the empty key among them
StoreKeyUniverse == SeqsOfLen(Bytes, 0, MaxKeyLen)

\* key lists in any order, duplicates and the empty key allowed
StoreKeyLists == SeqsOfLen(StoreKeyUniverse, 0, MaxKeys)

\* memory budgets in bits: none, room for exactly 1..MaxBudgetNodes nodes,
\* one bit less than that, and the generous budget of the tests
Budgets ==
    {0, BUILDER_MEMORY_LIMIT}
    \cup {u * (BlockSize + BlockSize + 1) : u \in 1..MaxBudgetNodes}
    \cup {u * (BlockSize + BlockSize + 1) - 1 : u \in 1..MaxBudgetNodes}

\* New about to be called with any keys and any memory budget
InitStore ==
    /\ pc = "new"
    /\ bm = BitmapNew(0, 0)
    /\ out = NoOut
    /\ rawKeys \in StoreKeyLists
    /\ keys = <<>>
    /\ memoryLimit \in Budgets
    /\ Labels = NewBuilder(BUILDER_MEMORY_LIMIT).Labels
    /\ HasChild = NewBuilder(BUILDER_MEMORY_LIMIT).HasChild
    /\ IsPrefixKey = NewBuilder(BUILDER_MEMORY_LIMIT).IsPrefixKey
    /\ tasks = <<>>
    /\ currentNodeId = 0
    /\ depth = 0
    /\ buildErr = "nil"
    /\ it = NewIterator
    /\ ret = NoRet
    /\ fresh = TRUE
    /\ yielded = <<>>

\* New under any options, and the queries and iterators on the SuRF it
\* returns
NextStore == New \/ Build \/ BuildDepth \/ BuildReturn \/ CallLookup
             \/ CallLookupOrGreater \/ CallRangeLookup \/ CallCount \/ Return
             \/ CallNewIterator \/ CallGoToChild \/ CallNext

SpecStore == InitStore /\ [][NextStore]_vars

\* the lists handed to Truncate on its own: sorted, duplicate-free lists of
\* non-empty keys, and the sorted key set of the paper (TestTruncate)
TruncateInputs ==
    {l \in SeqsOfLen(KeyUniverse, 0, MaxTruncateKeys) :
        \A i \in 1..(Len(l) - 1) : Less(l[i], l[i + 1])}
    \cup {SortFunc(PaperKeys)}

\* Truncate about to be called on rawKeys
InitTruncate ==
    /\ pc = "truncate"
    /\ rawKeys \in TruncateInputs
    /\ keys = <<>>
    /\ InitRest

\* keys = louds.Truncate(rawKeys)
CallTruncate ==
    /\ pc = "truncate"
    /\ keys' = Truncate(rawKeys)
    /\ pc' = "truncated"
    /\ UNCHANGED bitmapVars
    /\ UNCHANGED <<rawKeys, memoryLimit, builderVars, it, ret, fresh, yielded>>

\* Truncate on a sorted, duplicate-free list
NextTruncate == CallTruncate

SpecTruncate == InitTruncate /\ [][NextTruncate]_vars

\* the sizes and capacities a bitmap is made with: whole words, and
\* capacities one bit past a word boundary
BitmapSizes == {w * WordSize : w \in 0..MaxBitmapWords}

BitmapCapacities ==
    {w * WordSize : w \in 1..MaxBitmapWords}
    \cup {w * WordSize + 1 : w \in 0..(MaxBitmapWords - 1)}

\* the indices handed to Get, Set, Unset and Rank: the last and the first
\* bit of every word, -1, and the bit 1 inside the first word
BitIndices ==
    {1} \cup UNION {{w * WordSize - 1, w * WordSize} : w \in 0..MaxBitmapWords}

\* the values handed to Rank and Select: 0, 1 and an invalid one
BitValues == {0, 1, 3}

\* the counts handed to Select
NthValues == BitIndices \cup (-1..MaxNth)

\* the counts Rank(val, i) returns on the bitmap m, handed on to Select
RankValues(m, val) ==
    {Rank(m, val, i).val : i \in BitIndices \cap (0..(m.length - 1))}

\* bitmap.New(size, capacity) returned bm
InitBitmap ==
    /\ pc = "bitmap"
    /\ bm \in {BitmapNew(size, capacity) :
                  <<size, capacity>> \in {x \in BitmapSizes \X BitmapCapacities :
                                             ~BitmapNewPanics(x[1], x[2])}}
    /\ out = NoOut
    /\ rawKeys = <<>>
    /\ keys = <<>>
    /\ memoryLimit = BUILDER_MEMORY_LIMIT
    /\ Labels = NewBuilder(BUILDER_MEMORY_LIMIT).Labels
    /\ HasChild = NewBuilder(BUILDER_MEMORY_LIMIT).HasChild
    /\ IsPrefixKey = NewBuilder(BUILDER_MEMORY_LIMIT).IsPrefixKey
    /\ tasks = <<>>
    /\ currentNodeId = 0
    /\ depth = 0
    /\ buildErr = "nil"
    /\ it = NewIterator
    /\ ret = NoRet
    /\ fresh = TRUE
    /\ yielded = <<>>

\* bm.Set(bit)
CallSet ==
    /\ pc = "bitmap"
    /\ \E bit \in BitIndices :
          \E r \in {Set(bm, bit)} :
              /\ bm' = r.bm
              /\ out' = BitOut("Set", 0, bit, 0, r.err)
    /\ UNCHANGED <<pc, inputVars, builderVars, iterVars, ret>>

\* bm.Unset(bit)
CallUnset ==
    /\ pc = "bitmap"
    /\ \E bit \in BitIndices :
          \E r \in {Unset(bm, bit)} :
              /\ bm' = r.bm
              /\ out' = BitOut("Unset", 0, bit, 0, r.err)
    /\ UNCHANGED <<pc, inputVars, builderVars, iterVars, ret>>

\* bm.Get(bit)
CallGet ==
    /\ pc = "bitmap"
    /\ \E bit \in BitIndices :
          \E r \in {Get(bm, bit)} :
              /\ bm' = r.bm
              /\ out' = BitOut("Get", 0, bit, r.val, r.err)
    /\ UNCHANGED <<pc, inputVars, builderVars, iterVars, ret>>

\* bm.Rank(val, idx)
CallRank ==
    /\ pc = "bitmap"
    /\ \E val \in BitValues : \E idx \in BitIndices :
          \E r \in {Rank(bm, val, idx)} :
              out' = BitOut("Rank", val, idx, r.val, r.err)
    /\ UNCHANGED <<bm, pc, inputVars, builderVars, iterVars, ret>>

\* bm.Select(val, nth)
CallSelect ==
    /\ pc = "bitmap"
    /\ \E val \in BitValues : \E nth \in NthValues \cup RankValues(bm, val) :
          \E r \in {Select(bm, val, nth)} :
              /\ bm' = r.bm
              /\ out' = BitOut("Select", val, nth, r.val, r.err)
    /\ UNCHANGED <<pc, inputVars, builderVars, iterVars, ret>>

\* any sequence of calls on one bitmap
NextBitmap == CallSet \/ CallUnset \/ CallGet \/ CallRank \/ CallSelect

SpecBitmap == InitBitmap /\ [][NextBitmap]_vars

\* the results ErrEndOfTrie in a row, this one included, of the Next calls
\* up to the one that returned err after the call recorded in r; counted up
\* to MaxEndCalls
EndCalls(r, err) ==
    IF err # "ErrEndOfTrie" THEN 0
    ELSE IF r.op = "Next" /\ r.err = "ErrEndOfTrie" /\ r.count < MaxEndCalls
    THEN r.count + 1
    ELSE IF r.op = "Next" /\ r.err = "ErrEndOfTrie" THEN MaxEndCalls
    ELSE 1

\* it.Next() is entered; ret still holds the call before it
NextBegin ==
    /\ pc = "built"
    /\ ret.op # "Count"
    /\ pc' = "next"
    /\ UNCHANGED bitmapVars
    /\ UNCHANGED <<inputVars, builderVars, iterVars, ret>>

\* one step of the loops of it.Next(): a run of missing edges and the body
\* of the inner loop that follows it, or the ascent; the step that returns
\* hands the key and the error to the caller
NextIterate ==
    /\ pc = "next"
    /\ \E w0 \in {SkipMissingEdges(W)} : \E r \in {NextStep(w0)} :
           /\ it' = r.w.it
           /\ Labels' = r.w.Labels
           /\ HasChild' = r.w.HasChild
           /\ IsPrefixKey' = r.w.IsPrefixKey
           /\ IF r.done
              THEN /\ pc' = IF r.err = "panic" THEN "panic" ELSE "built"
                   /\ ret' = Ret("Next", <<>>, <<>>, 0, FALSE, r.key,
                                 EndCalls(ret, r.err), r.err, r.w.it)
                   /\ yielded' = IF fresh /\ r.err = "nil"
                                 THEN Append(yielded, r.key) ELSE yielded
              ELSE UNCHANGED <<pc, ret, yielded>>
    /\ UNCHANGED bitmapVars
    /\ UNCHANGED <<inputVars, tasks, currentNodeId, depth, buildErr, fresh>>

\* surf.Count(low, high) up to its loop: ret holds low, high, count, curKey
\* (val) and Count's iterator (it); a failed lookupOrGreater returns at once
CountBegin ==
    /\ pc = "built"
    /\ ret = NoRet
    /\ \E q \in QueryRanges(rawKeys) :
          \E m \in {lookupOrGreater(S, q[1])} :
              /\ Labels' = m.w.Labels
              /\ HasChild' = m.w.HasChild
              /\ IsPrefixKey' = m.w.IsPrefixKey
              /\ pc' = IF m.err = "nil" THEN "count" ELSE "built"
              /\ ret' = IF m.err = "nil"
                        THEN Ret("Count", q[1], q[2], 0, FALSE, m.key, 0, "nil",
                                 m.w.it)
                        ELSE Ret("Count", q[1], q[2], 0, FALSE, <<>>, 0,
                                 IF m.err = "ErrEndOfTrie" THEN "nil" ELSE m.err,
                                 m.w.it)
    /\ UNCHANGED bitmapVars
    /\ UNCHANGED <<inputVars, tasks, currentNodeId, depth, buildErr, iterVars>>

\* one test of the loop condition of Count: count++ and into it.Next() when
\* it holds, else Count returns count
CountIterate ==
    /\ pc = "count"
    /\ IF Less(ret.val, ret.high) \/ ret.val = ret.high
       THEN /\ pc' = "countnext"
            /\ ret' = [ret EXCEPT !.count = @ + 1]
       ELSE /\ pc' = "built"
            /\ ret' = [ret EXCEPT !.val = <<>>]
    /\ UNCHANGED bitmapVars
    /\ UNCHANGED <<inputVars, builderVars, iterVars>>

\* Count's iterator with the bitmaps it points to
CountW ==
    [it |-> ret.it, Labels |-> Labels, HasChild |-> HasChild,
     IsPrefixKey |-> IsPrefixKey]

\* one step of the loops of it.Next() in the body of the loop of Count; on
\* its return ErrEndOfTrie breaks the loop, another error returns 0, and a
\* key becomes curKey
CountNextStep ==
    /\ pc = "countnext"
    /\ \E w0 \in {SkipMissingEdges(CountW)} : \E r \in {NextStep(w0)} :
           /\ Labels' = r.w.Labels
           /\ HasChild' = r.w.HasChild
           /\ IsPrefixKey' = r.w.IsPrefixKey
           /\ pc' = IF ~r.done THEN "countnext"
                    ELSE IF r.err = "nil" THEN "count" ELSE "built"
           /\ ret' = IF ~r.done THEN [ret EXCEPT !.it = r.w.it]
                     ELSE IF r.err = "ErrEndOfTrie"
                     THEN [ret EXCEPT !.val = <<>>, !.it = r.w.it]
                     ELSE IF r.err # "nil"
                     THEN [ret EXCEPT !.val = <<>>, !.count = 0, !.it = r.w.it]
                     ELSE [ret EXCEPT !.val = r.key, !.it = r.w.it]
    /\ UNCHANGED bitmapVars
    /\ UNCHANGED <<inputVars, tasks, currentNodeId, depth, buildErr, iterVars>>

\* New, then a caller that walks the trie with an iterator and counts
\* ranges, Next and Count taken loop step by loop step
NextWalk == New \/ Build \/ BuildDepth \/ BuildReturn \/ CallNewIterator
            \/ CallGoToChild \/ NextBegin \/ NextIterate \/ CountBegin
            \/ CountIterate \/ CountNextStep \/ Return

\* Next and Count are synchronous: once entered, their loops run on
SpecWalk ==
    /\ InitNew
    /\ [][NextWalk]_vars
    /\ WF_vars(NextIterate)
    /\ WF_vars(CountIterate)
    /\ WF_vars(CountNextStep)

\* ------------------------------------------------------------------------
\* Properties
\* ------------------------------------------------------------------------

\* the original keys, as a set
OriginalKeys == Range(rawKeys)

\* the truncated keys the trie stores, as a set
TruncatedKeys == Range(keys)

\* C1: no false negatives for point lookup.  Whatever the order of the keys
\* passed to New, and with duplicates among them, Lookup of any of these keys
\* returns (true, nil).
C1_NoFalseNegatives ==
    (ret.op = "Lookup" /\ ret.key \in OriginalKeys)
        => (ret.exists /\ ret.err = "nil")

\* C1 happens: the keys were passed out of order, and the key looked up was
\* stored truncated to a proper prefix of it
C1_Witness ==
    /\ ret.op = "Lookup"
    /\ ret.key \in OriginalKeys
    /\ ret.key \notin TruncatedKeys
    /\ \E i \in 1..(Len(rawKeys) - 1) : Less(rawKeys[i + 1], rawKeys[i])
    /\ ret.exists

\* C7: Lookup is sound on prefixes.  A query that is a proper prefix of a
\* stored key, is not itself an original key, and has no truncated key equal
\* to it or a prefix of it, is answered false.
C7_PrefixSoundness ==
    (/\ ret.op = "Lookup"
     /\ \E k \in OriginalKeys : IsProperPrefixOf(ret.key, k)
     /\ ret.key \notin OriginalKeys
     /\ ~ \E t \in TruncatedKeys : IsPrefixOf(t, ret.key))
        => (~ret.exists /\ ret.err = "nil")

\* C7 happens: a non-empty query that ends on an internal node of the trie
\* that is not a prefix key
C7_Witness ==
    /\ ret.op = "Lookup"
    /\ ret.key # <<>>
    /\ \E k \in OriginalKeys : IsProperPrefixOf(ret.key, k)
    /\ ret.key \notin OriginalKeys
    /\ ~ \E t \in TruncatedKeys : IsPrefixOf(t, ret.key)
    /\ ret.it.keyPrefix = ret.key
    /\ ~ret.exists

\* the least key of a non-empty set of keys in lexicographic order
MinKey(K) == CHOOSE k \in K : \A o \in K : LessEq(k, o)

\* the stored keys an iterator at the node of path p with next edge e has
\* still ahead of it: those below the node by an edge >= e, and those that
\* follow the node's whole subtree
KeysAhead(p, e) ==
    {k \in TruncatedKeys :
        \/ IsProperPrefixOf(p, k) /\ k[Len(p) + 1] >= e
        \/ Less(p, k) /\ ~IsPrefixOf(p, k)}

\* rank1: the number of one bits of the bitmap m in [0, idx]
Rank1(m, idx) == Cardinality({b \in m.bits : b <= idx})

\* C4: iteration completeness.  On the trie of a sorted, duplicate-free,
\* truncated key set, the Next calls on a fresh iterator up to the first
\* ErrEndOfTrie return every stored key exactly once: none is skipped, and
\* that includes the keys holding the byte 0x00.
C4_IterationComplete ==
    (/\ pc = "built"
     /\ Truncate(keys) = keys
     /\ fresh
     /\ ret.op = "Next"
     /\ ret.err = "ErrEndOfTrie")
        => (Range(yielded) = TruncatedKeys /\ Len(yielded) = Len(keys))

\* C5: ordering.  The keys successive Next calls return on a fresh iterator
\* are strictly increasing in lexicographic order.
C5_StrictlyIncreasing ==
    \A i \in 1..(Len(yielded) - 1) : Less(yielded[i], yielded[i + 1])

\* C5 happens: a fresh iterator ran to ErrEndOfTrie and returned two keys
\* or more, a key among them that shares its first byte with the one before
C5_Witness ==
    /\ fresh
    /\ ret.op = "Next"
    /\ ret.err = "ErrEndOfTrie"
    /\ Len(yielded) >= 2
    /\ \E i \in 1..(Len(yielded) - 1) : yielded[i][1] = yielded[i + 1][1]

\* C8: interleaving GoToChild and Next.  On an iterator that GoToChild has
\* moved, every Next returns the least stored key still ahead of the
\* iterator's position: first the keys that strictly extend the path of the
\* node it was moved to, in ascending order and without omission, then the
\* least key after that subtree; ErrEndOfTrie when no key is ahead.
C8_NextAfterGoToChild ==
    [][(ret'.op = "Next" /\ ~fresh)
          => LET ahead == KeysAhead(it.keyPrefix, it.nextEdge)
             IN  IF ahead = {} THEN ret'.err = "ErrEndOfTrie"
                 ELSE ret'.err = "nil" /\ ret'.val = MinKey(ahead)]_vars

\* C9: GoToChild(edge) at node n.  ErrNoSuchEdge exactly when
\* Labels[256n+edge] = 0, ErrIsLeaf exactly when Labels[256n+edge] = 1 and
\* HasChild[256n+edge] = 0, and both leave the iterator as it was; otherwise
\* edge is pushed onto keyPrefix and edges, n onto nodes, NodeIndex becomes
\* rank1(HasChild, 256n+edge) and nextEdge 0.
C9_GoToChild ==
    [][ret'.op = "GoToChild"
          => LET n == it.NodeIndex
                 edge == ret'.edge
                 offset == BlockSize * n + edge
                 label == offset \in Labels.bits
                 child == offset \in HasChild.bits
             IN  /\ (ret'.err = "ErrNoSuchEdge") <=> ~label
                 /\ (ret'.err = "ErrIsLeaf") <=> (label /\ ~child)
                 /\ ret'.err \in {"ErrNoSuchEdge", "ErrIsLeaf"} => it' = it
                 /\ ret'.err \notin {"ErrNoSuchEdge", "ErrIsLeaf"}
                       => /\ ret'.err = "nil"
                          /\ it' = [NodeIndex |-> Rank1(HasChild, offset),
                                    nodes |-> Append(it.nodes, n),
                                    nextEdge |-> 0,
                                    edges |-> Append(it.edges, edge),
                                    keyPrefix |-> Append(it.keyPrefix, edge)]]_vars

\* C9 happens: a GoToChild succeeded from a node below the root that Next
\* had left with a next edge other than 0
C9_Witness ==
    /\ ret.op = "GoToChild"
    /\ ret.err = "nil"
    /\ Len(it.nodes) >= 2
    /\ it.NodeIndex >= 2
    /\ it.nextEdge = 0

\* the original keys in the closed range [low, high]
KeysInRange(low, high) ==
    {k \in OriginalKeys : LessEq(low, k) /\ LessEq(k, high)}

\* C2: no false negatives for range lookup.  For low <= high, when an
\* original key lies in [low, high] (bounds included), RangeLookup(low, high)
\* returns true.
C2_RangeNoFalseNegatives ==
    (/\ ret.op = "RangeLookup"
     /\ LessEq(ret.key, ret.high)
     /\ KeysInRange(ret.key, ret.high) # {})
        => (ret.exists /\ ret.err = "nil")

\* what lookupOrGreater returns on the paper's key set: a->f fas->fas
\* fal->far fasa->fast t->top trif->trip tripper->trip trz->ErrEndOfTrie
PaperSuccessors ==
    { << <<97>>, <<102>>, "nil" >>,
      << <<102, 97, 115>>, <<102, 97, 115>>, "nil" >>,
      << <<102, 97, 108>>, <<102, 97, 114>>, "nil" >>,
      << <<102, 97, 115, 97>>, <<102, 97, 115, 116>>, "nil" >>,
      << <<116>>, <<116, 111, 112>>, "nil" >>,
      << <<116, 114, 105, 102>>, <<116, 114, 105, 112>>, "nil" >>,
      << <<116, 114, 105, 112, 112, 101, 114>>, <<116, 114, 105, 112>>, "nil" >>,
      << <<116, 114, 122>>, <<>>, "ErrEndOfTrie" >> }

\* C3: successor.  A key s that lookupOrGreater(q) returns is the truncated
\* key that matches q (a prefix of q) or a truncated key >= q, and no
\* truncated key lies strictly between q and s; ErrEndOfTrie is returned when
\* no truncated key matches q or is >= q.  On the paper's key set the results
\* are those of PaperSuccessors.
C3_Successor ==
    ret.op = "lookupOrGreater"
        => LET q == ret.key
               s == ret.val
               reachable == {t \in TruncatedKeys : IsPrefixOf(t, q) \/ LessEq(q, t)}
           IN  /\ ret.err \in {"nil", "ErrEndOfTrie"}
               /\ ret.err = "nil"
                     => /\ s \in reachable
                        /\ ~ \E t \in TruncatedKeys : Less(q, t) /\ Less(t, s)
               /\ reachable = {} => ret.err = "ErrEndOfTrie"
               /\ rawKeys = PaperKeys
                     => \A e \in PaperSuccessors :
                           e[1] = q => (ret.err = e[3] /\ s = e[2])

\* what Count returns on the paper's key set: (a,f)=1 (a,fat)=5 (fal,fat)=4
\* (s,s)=1 (tp,tq)=0 (tp,ts)=3 (tripper,try)=2 (trz,zarty)=0
PaperCounts ==
    { << <<97>>, <<102>>, 1 >>,
      << <<97>>, <<102, 97, 116>>, 5 >>,
      << <<102, 97, 108>>, <<102, 97, 116>>, 4 >>,
      << <<115>>, <<115>>, 1 >>,
      << <<116, 112>>, <<116, 113>>, 0 >>,
      << <<116, 112>>, <<116, 115>>, 3 >>,
      << <<116, 114, 105, 112, 112, 101, 114>>, <<116, 114, 121>>, 2 >>,
      << <<116, 114, 122>>, <<122, 97, 114, 116, 121>>, 0 >> }

\* C6: Count accuracy.  For low <= high, Count(low, high) is at least the
\* number of distinct original keys in [low, high] and at most two more.  On
\* the paper's key set the counts are those of PaperCounts.
C6_CountAccuracy ==
    (ret.op = "Count" /\ LessEq(ret.key, ret.high))
        => LET n == Cardinality(KeysInRange(ret.key, ret.high))
           IN  /\ ret.err = "nil"
               /\ n <= ret.count
               /\ ret.count <= n + 2
               /\ rawKeys = PaperKeys
                     => \A e \in PaperCounts :
                           (e[1] = ret.key /\ e[2] = ret.high) => ret.count = e[3]

\* the paths of the internal nodes of the trie of the keys K: the proper
\* prefixes of the keys, the empty path of the root among them
NodePaths(K) == UNION {{Prefix(k, n) : n \in 0..(Len(k) - 1)} : k \in K}

\* the number of the node of path p: its place among the paths ordered by
\* length, then lexicographically, counted from 0
NodeNumber(K, p) ==
    Cardinality({q \in NodePaths(K) :
                    Len(q) < Len(p) \/ (Len(q) = Len(p) /\ Less(q, p))})

\* the bits 256n+b of the edges p.b that are a prefix of a key of K
EdgeBits(K) ==
    UNION {{BlockSize * NodeNumber(K, Prefix(k, i - 1)) + k[i] : i \in 1..Len(k)}
              : k \in K}

\* the bits 256n+b of the edges p.b that are a proper prefix of a key of K
ChildBits(K) ==
    UNION {{BlockSize * NodeNumber(K, Prefix(k, i - 1)) + k[i]
               : i \in 1..(Len(k) - 1)} : k \in K}

\* the bits n of the nodes whose path is itself a key of K
PrefixKeyBits(K) == {NodeNumber(K, p) : p \in NodePaths(K) \cap K}

\* C10: encoding correctness.  After Build of a sorted, duplicate-free list
\* of non-empty keys, the nodes are the proper prefixes of the keys numbered
\* by (length, lexicographic order) from the root 0; Labels[256n+b] = 1 iff
\* p.b is a prefix of a key, HasChild[256n+b] = 1 iff p.b is a proper prefix
\* of a key, IsPrefixKey[n] = 1 iff p is a key; no other bit is set.
C10_Encoding ==
    pc = "built"
        => /\ buildErr = "nil"
           /\ Labels.bits = EdgeBits(TruncatedKeys)
           /\ HasChild.bits = ChildBits(TruncatedKeys)
           /\ IsPrefixKey.bits = PrefixKeyBits(TruncatedKeys)

\* C10 happens: Build finished on two keys, the first a proper prefix of the
\* second, with a node below the root's children
C10_Witness ==
    /\ pc = "built"
    /\ Len(keys) = 2
    /\ IsProperPrefixOf(keys[1], keys[2])
    /\ Cardinality(HasChild.bits) >= 2
    /\ IsPrefixKey.bits # {}

C12_NoSignalEscapes ==
    /\ ret.op \in {"Lookup", "RangeLookup", "Count"} => ret.err = "nil"
    /\ ret.op = "lookupOrGreater" => ret.err \in {"nil", "ErrEndOfTrie"}

\* C12 happens: lookupOrGreater ran off the end of a trie that holds keys
C12_Witness ==
    /\ ret.op = "lookupOrGreater"
    /\ ret.err = "ErrEndOfTrie"
    /\ keys # <<>>

\* the results of the four queries as the caller sees them
LookupRet(key, q) == Ret("Lookup", key, <<>>, 0, q.exists, <<>>, 0, q.err, q.w.it)

lookupOrGreaterRet(key, q) ==
    Ret("lookupOrGreater", key, <<>>, 0, FALSE, q.key, 0, q.err, q.w.it)

RangeLookupRet(low, high, q) ==
    Ret("RangeLookup", low, high, 0, q.exists, <<>>, 0, q.err, q.w.it)

CountRet(low, high, q) ==
    Ret("Count", low, high, 0, FALSE, <<>>, q.count, q.err, q.w.it)

\* what the query that returned r returns when it is made on the bitmaps s
QueryAgain(s, r) ==
    IF r.op = "Lookup" THEN LookupRet(r.key, Lookup(s, r.key))
    ELSE IF r.op = "lookupOrGreater"
    THEN lookupOrGreaterRet(r.key, lookupOrGreater(s, r.key))
    ELSE IF r.op = "RangeLookup"
    THEN RangeLookupRet(r.key, r.high, RangeLookup(s, r.key, r.high))
    ELSE CountRet(r.key, r.high, Count(s, r.key, r.high))

\* C13: queries are read-only and deterministic.  No Lookup,
\* lookupOrGreater, RangeLookup or Count changes the length or the contents
\* of Labels, HasChild or IsPrefixKey, so after any sequence of queries the
\* bitmaps are as New left them, and the query made again on the bitmaps it
\* left behind returns the same result.
C13_QueriesReadOnly ==
    [][ret'.op \in {"Lookup", "lookupOrGreater", "RangeLookup", "Count"}
           => /\ Labels' = Labels
              /\ HasChild' = HasChild
              /\ IsPrefixKey' = IsPrefixKey
              /\ ret' = QueryAgain([Labels |-> Labels', HasChild |-> HasChild',
                                    IsPrefixKey |-> IsPrefixKey'], ret')]_vars

\* C13 happens: a query walked below the root of a trie of several nodes
\* and found the last edge of a node missing
C13_Witness ==
    /\ pc = "built"
    /\ ret.op = "Lookup"
    /\ Len(ret.key) > 1
    /\ ret.key[Len(ret.key)] = BlockSize - 1
    /\ ret.it.NodeIndex > 0
    /\ ~ret.exists

\* the number of nodes the trie of the keys K is made of
NodesNeeded(K) == Cardinality(NodePaths(K))

\* the number of nodes a budget of memory_limit bits has room for
NodeCapacity(memory_limit) == memory_limit \div (BlockSize + BlockSize + 1)

\* C14: Build fails on an exhausted budget.  For every memory budget and
\* every list of non-empty keys, when the trie of the truncated keys needs
\* more nodes than the budget has room for, New ends with the error of
\* Build; and when Build returns nil every node of the trie is encoded.
C14_BuildFailure ==
    (\A i \in 1..Len(rawKeys) : rawKeys[i] # <<>>)
        => /\ (pc \in {"built", "failed", "panic"}
               /\ NodesNeeded(TruncatedKeys) > NodeCapacity(memoryLimit))
                  => (pc = "failed" /\ buildErr \notin {"nil", "panic"})
           /\ pc = "built"
                  => /\ buildErr = "nil"
                     /\ Labels.bits = EdgeBits(TruncatedKeys)
                     /\ HasChild.bits = ChildBits(TruncatedKeys)
                     /\ IsPrefixKey.bits = PrefixKeyBits(TruncatedKeys)

C16_EmptyKey ==
    ((\E i \in 1..Len(rawKeys) : rawKeys[i] = <<>>)
     /\ memoryLimit = BUILDER_MEMORY_LIMIT)
        => /\ pc # "panic"
           /\ pc = "built" => 0 \in IsPrefixKey.bits
           /\ (ret.op = "Lookup" /\ ret.key = <<>>) => ret.exists

\* the value of bit i of the bitmap m
BitOf(m, i) == IF i \in m.bits THEN 1 ELSE 0

\* C17: bounds and auto-grow of Get, Set and Unset.  A call on bit i fails
\* exactly when i < 0 or i >= Capacity, and then leaves the bitmap as it
\* was.  Otherwise it succeeds, the length covers i afterwards and never
\* shrinks, Get returns the bit and changes none, Set makes bit i 1 and
\* Unset makes it 0, and no other bit changes: a bit reads 1 exactly when
\* it was Set and not Unset since.
C17_BoundsAndGrow ==
    [][out'.op \in {"Get", "Set", "Unset"}
          => /\ out'.err # "nil" <=> (out'.arg < 0 \/ out'.arg >= bm.Capacity)
             /\ out'.err # "nil" => bm' = bm
             /\ out'.err = "nil"
                   => /\ bm'.Capacity = bm.Capacity
                      /\ bm'.length > out'.arg
                      /\ bm'.length >= bm.length
                      /\ bm'.length = bm.length \/ out'.arg >= bm.length
                      /\ out'.op = "Get"
                            => (bm'.bits = bm.bits
                                /\ out'.res = BitOf(bm, out'.arg))
                      /\ out'.op = "Set" => bm'.bits = bm.bits \cup {out'.arg}
                      /\ out'.op = "Unset" => bm'.bits = bm.bits \ {out'.arg}]_vars

\* C17 happens: Unset grew a bitmap that holds one bits by a word
C17_Witness ==
    /\ out.op = "Unset"
    /\ out.err = "nil"
    /\ out.arg = bm.length - 1
    /\ out.arg >= WordSize
    /\ bm.bits # {}

\* the number of bits of value v of the bitmap m in [0, i]
CountUpTo(m, v, i) == Cardinality({j \in 0..i : BitOf(m, j) = v})

\* C18: Rank.  Rank(v, i) fails exactly when i is outside [0, length) or v
\* is neither 0 nor 1; otherwise it returns the number of bits of value v
\* in [0, i], at the word boundaries too, so that Rank(0, i) + Rank(1, i) =
\* i + 1.  Rank never changes the bitmap.
C18_Rank ==
    [][out'.op = "Rank"
          => /\ bm' = bm
             /\ out'.err # "nil"
                   <=> (out'.arg < 0 \/ out'.arg >= bm.length
                        \/ out'.val \notin {0, 1})
             /\ out'.err = "nil"
                   => /\ out'.res = CountUpTo(bm, out'.val, out'.arg)
                      /\ Rank(bm, 0, out'.arg).val + Rank(bm, 1, out'.arg).val
                             = out'.arg + 1]_vars

\* C18 happens: Rank counted the zeros up to the first bit of the second
\* word, with ones on both sides of the word boundary
C18_Witness ==
    /\ out.op = "Rank"
    /\ out.err = "nil"
    /\ out.val = 0
    /\ out.arg = WordSize
    /\ {WordSize - 1, WordSize, 2 * WordSize - 1} \subseteq bm.bits
    /\ out.res = WordSize - 1

\* the number of bits of value v of the bitmap m in [0, n)
CountBelow(m, v, n) == IF n <= 0 THEN 0 ELSE CountUpTo(m, v, n - 1)

\* the number of bits of the bitmap m that Get reads without an error: the
\* bits of the last word at or after Capacity are not among them
Addressable(m) == IF m.Capacity < m.length THEN m.Capacity ELSE m.length

\* C19: Select.  For v in {0, 1} and 1 <= n <= the number of bits of value
\* v in [0, length), Select(v, n) returns the position of the n-th bit of
\* value v, the smallest i with Rank(v, i) = n: a bit of value v with n
\* bits of value v in [0, i].
C19_Select ==
    [][(out'.op = "Select" /\ out'.val \in {0, 1} /\ 1 <= out'.arg
        /\ out'.arg <= CountBelow(bm, out'.val, bm.length))
          => /\ out'.err = "nil"
             /\ BitOf(bm, out'.res) = out'.val
             /\ CountUpTo(bm, out'.val, out'.res) = out'.arg
             /\ Rank(bm, out'.val, out'.res).val = out'.arg]_vars

\* C19 as the code has it: the same for 1 <= n <= the number of bits of
\* value v among the bits Get can read, [0, min(length, Capacity)); and
\* such a Select leaves the bitmap as it was.
C19_SelectAddressable ==
    [][(out'.op = "Select" /\ out'.val \in {0, 1} /\ 1 <= out'.arg
        /\ out'.arg <= CountBelow(bm, out'.val, Addressable(bm)))
          => /\ out'.err = "nil"
             /\ BitOf(bm, out'.res) = out'.val
             /\ CountUpTo(bm, out'.val, out'.res) = out'.arg
             /\ Rank(bm, out'.val, out'.res).val = out'.arg
             /\ bm' = bm]_vars

\* C19 happens: Select found the one that ends the first word, the count
\* reaching nth exactly at the word boundary, with a one right after it
C19_Witness ==
    /\ out.op = "Select"
    /\ out.err = "nil"
    /\ out.val = 1
    /\ out.arg >= 1
    /\ out.res = WordSize - 1
    /\ WordSize \in bm.bits

\* C20: Select failure.  Select(v, n) fails when n <= 0, when n > length,
\* when v is neither 0 nor 1, and when fewer than n bits of value v lie in
\* [0, length), for v = 0 and v = 1 alike and with Capacity above length
\* too; it then returns no index and leaves the bitmap as long as it was.
C20_SelectFailure ==
    [][(out'.op = "Select"
        /\ (out'.arg <= 0 \/ out'.arg > bm.length \/ out'.val \notin {0, 1}
            \/ CountBelow(bm, out'.val, bm.length) < out'.arg))
          => /\ out'.err # "nil"
             /\ bm' = bm]_vars

\* C21: the iterator's position after lookup.  When lookup(key) ends on an
\* edge e of the node N, with a match on a leaf edge or without a match
\* because N has no edge e, the iterator it returns is at N with nextEdge =
\* e, so that the Next that follows in lookupOrGreater never returns a key
\* smaller than the query.
C21_LookupPosition ==
    /\ (ret.op = "Lookup" /\ ret.err = "nil"
        /\ Len(ret.it.keyPrefix) < Len(ret.key))
          => /\ ret.it.keyPrefix = Prefix(ret.key, Len(ret.it.keyPrefix))
             /\ ret.it.NodeIndex
                    = NodeNumber(TruncatedKeys, ret.it.keyPrefix)
             /\ ret.it.nextEdge = ret.key[Len(ret.it.keyPrefix) + 1]
    /\ (ret.op = "lookupOrGreater" /\ ret.err = "nil"
        /\ ~Lookup(S, ret.key).exists)
          => ~Less(ret.val, ret.key)

\* C22: no re-yield after a match.  The key lookupOrGreater(low) returned
\* and the keys the Next calls on its iterator return after it, as the loop
\* of Count takes them, are strictly increasing; so Count(low, high) counts
\* no truncated key twice and none smaller than the matched key: at most the
\* truncated keys from the matched key up to high.
C22_NoReYield ==
    [][/\ (pc = "countnext" /\ pc' = "count") => Less(ret.val, ret'.val)
       /\ (pc = "built" /\ pc' = "count")
             => ret'.val \in TruncatedKeys
       /\ (pc \in {"count", "countnext"} /\ pc' = "built"
           /\ lookupOrGreater(S, ret.key).err = "nil")
             => ret'.count
                    <= Cardinality({t \in TruncatedKeys :
                           /\ LessEq(lookupOrGreater(S, ret.key).key, t)
                           /\ LessEq(t, ret.high)})]_vars

\* C23: the scan restarts after a descent.  Whenever Next descends into a
\* child node, the scan of the child goes on from nextEdge = 0, whether the
\* child is a prefix key or not, so that the child's edge 0x00 is tried
\* before its edge 0x01.
C23_ScanRestart ==
    [][(pc = "next" /\ Len(it'.keyPrefix) > Len(it.keyPrefix))
          => it'.nextEdge = 0]_vars

\* the path of the node number n of the trie of the keys K
PathOf(K, n) == CHOOSE p \in NodePaths(K) : NodeNumber(K, p) = n

\* the node number c lies inside the allocated extent of the three bitmaps
InExtent(c) ==
    /\ BlockSize * c + (BlockSize - 1) < Labels.length
    /\ BlockSize * c + (BlockSize - 1) < HasChild.length
    /\ c < IsPrefixKey.length

\* C24: the navigation invariant.  After a successful Build, for every node
\* n and byte b with Labels[256n+b] = 1 and HasChild[256n+b] = 1, rank1 of
\* HasChild at 256n+b is the level-order number of the node whose path is
\* the path of n followed by b; the set HasChild bits map one to one onto
\* the node numbers 1..N-1, N the number of nodes; and every such number
\* lies inside the allocated extent of the three bitmaps.
C24_Navigation ==
    (pc = "built" /\ buildErr = "nil")
        => /\ HasChild.bits \subseteq Labels.bits
           /\ \A x \in HasChild.bits \cap Labels.bits :
                  /\ x \div BlockSize < NodesNeeded(TruncatedKeys)
                  /\ Rank(HasChild, 1, x).err = "nil"
                  /\ Append(PathOf(TruncatedKeys, x \div BlockSize), x % BlockSize)
                         \in NodePaths(TruncatedKeys)
                  /\ Rank(HasChild, 1, x).val
                         = NodeNumber(TruncatedKeys,
                               Append(PathOf(TruncatedKeys, x \div BlockSize),
                                      x % BlockSize))
                  /\ InExtent(Rank(HasChild, 1, x).val)
           /\ \A x \in HasChild.bits : \A y \in HasChild.bits :
                  Rank(HasChild, 1, x).val = Rank(HasChild, 1, y).val => x = y
           /\ {Rank(HasChild, 1, x).val : x \in HasChild.bits}
                  = 1..(NodesNeeded(TruncatedKeys) - 1)

\* C24 happens: Build finished a trie of four nodes, and an edge of a node
\* below the root leads to the last of them
C24_Witness ==
    /\ pc = "built"
    /\ buildErr = "nil"
    /\ NodesNeeded(TruncatedKeys) = 4
    /\ \E x \in HasChild.bits :
           /\ x >= BlockSize
           /\ x % BlockSize = BlockSize - 1
           /\ Rank(HasChild, 1, x).val = 3

\* the first 0-based index at which the key k differs from the key o, a
\* byte one of them lacks counting as a difference; Len(k) when they are
\* equal
DiffIndex(k, o) ==
    IF k = o THEN Len(k)
    ELSE SetMin({i \in 0..Len(k) :
                    i >= Len(k) \/ i >= Len(o) \/ k[i + 1] # o[i + 1]})

\* the larger of two numbers
Larger(x, y) == IF x > y THEN x ELSE y

\* the prefix of k that ends with the byte after its first n bytes, or k
\* itself when it has no such byte: k[0 .. min(n+1, len(k))]
CutAfter(k, n) == IF n + 1 < Len(k) THEN Prefix(k, n + 1) ELSE k

\* what Truncate returns on the sorted key set of the paper (TestTruncate):
\* f far fas fast fat s top toy trie trip try
PaperTruncated ==
    << <<102>>, <<102, 97, 114>>, <<102, 97, 115>>, <<102, 97, 115, 116>>,
       <<102, 97, 116>>, <<115>>, <<116, 111, 112>>, <<116, 111, 121>>,
       <<116, 114, 105, 101>>, <<116, 114, 105, 112>>, <<116, 114, 121>> >>

\* C25: the truncation rule.  For a sorted, duplicate-free list, Truncate
\* emits for the key k at every position k[0 .. min(n+1, len(k))], n the
\* larger of d- and d+: the first index at which k differs from its
\* predecessor and from its successor, each taken as len(k) when there is
\* no difference or no such neighbour; so too for the first key, the last
\* key and a single key.  On the paper set the result is f far fas fast fat
\* s top toy trie trip try.
C25_TruncationRule ==
    pc = "truncated"
        => /\ Len(keys) = Len(rawKeys)
           /\ \A i \in 1..Len(keys) :
                  keys[i] = CutAfter(rawKeys[i],
                                Larger(IF i = 1 THEN Len(rawKeys[i])
                                       ELSE DiffIndex(rawKeys[i], rawKeys[i - 1]),
                                       IF i = Len(rawKeys) THEN Len(rawKeys[i])
                                       ELSE DiffIndex(rawKeys[i], rawKeys[i + 1])))
           /\ rawKeys = SortFunc(PaperKeys) => keys = PaperTruncated

\* C25 as the code has it: the same with d- taken as 0 for the first key
\* and d+ taken as 0 for the last key, so that a key is cut against the
\* neighbours it has and a single key is cut to its first byte.
C25_TruncationRuleEnds ==
    pc = "truncated"
        => /\ Len(keys) = Len(rawKeys)
           /\ \A i \in 1..Len(keys) :
                  keys[i] = CutAfter(rawKeys[i],
                                Larger(IF i = 1 THEN 0
                                       ELSE DiffIndex(rawKeys[i], rawKeys[i - 1]),
                                       IF i = Len(rawKeys) THEN 0
                                       ELSE DiffIndex(rawKeys[i], rawKeys[i + 1])))
           /\ rawKeys = SortFunc(PaperKeys) => keys = PaperTruncated

\* C25 happens: of three keys the first and the last were cut to the byte
\* that tells them from their one neighbour, and the first, a prefix of the
\* second, was kept whole up to there
C25_Witness ==
    /\ pc = "truncated"
    /\ Len(keys) = 3
    /\ IsProperPrefixOf(rawKeys[1], rawKeys[2])
    /\ keys[1] = rawKeys[1]
    /\ Len(keys[3]) < Len(rawKeys[3])
    /\ Len(keys[2]) < Len(rawKeys[2])

\* the bits set in Labels in the blocks of the nodes at depth d of the trie
\* of the keys K
LevelBits(K, d) ==
    {x \in Labels.bits :
        \E p \in NodePaths(K) : Len(p) = d /\ NodeNumber(K, p) = x \div BlockSize}

\* the j-th smallest element of a set of numbers
NthOf(X, j) == CHOOSE x \in X : Cardinality({y \in X : y < x}) = j - 1

\* the number of tasks with keys among the first j tasks of the queue
TasksWithKeys(j) == Cardinality({i \in 1..j : tasks[i].keys # <<>>})

\* the task queue after the level depth - 1: a task per bit set in Labels
\* at that level, in scan order; a task has keys exactly when the HasChild
\* bit of its edge is set; and the k-th task with keys becomes the node
\* currentNodeId + k - 1, the node that follows the nodes built so far
LevelInvariant ==
    (pc \in {"build", "built"} /\ depth >= 1)
        => /\ Len(tasks) = Cardinality(LevelBits(TruncatedKeys, depth - 1))
           /\ \A j \in 1..Len(tasks) :
                  /\ tasks[j].keys # <<>>
                         <=> NthOf(LevelBits(TruncatedKeys, depth - 1), j)
                                 \in HasChild.bits
                  /\ tasks[j].keys # <<>>
                         => Rank1(HasChild,
                                  NthOf(LevelBits(TruncatedKeys, depth - 1), j))
                                = currentNodeId + TasksWithKeys(j) - 1

\* C26: the builder's level invariant.  At the end of each depth of Build
\* the task queue holds one NodeTask per Labels bit set at that depth, in
\* scan order (node by node, labels ascending), a queued task has keys iff
\* the HasChild bit of its edge is set, the k-th task with keys is built as
\* the k-th node after the nodes built so far, and currentNodeId only
\* increases.
C26_LevelInvariant ==
    [][LevelInvariant' /\ currentNodeId' >= currentNodeId]_vars

\* C26 happens: the second level left a task with keys and a task without,
\* after two nodes were built
C26_Witness ==
    /\ pc = "build"
    /\ depth = 2
    /\ currentNodeId = 2
    /\ \E i \in 1..Len(tasks) : \E j \in 1..Len(tasks) :
           tasks[i].keys # <<>> /\ tasks[j].keys = <<>>

\* C27: RangeLookup and Count agree.  On every built SuRF and for every
\* low and high, RangeLookup(low, high) returns true if and only if
\* Count(low, high) returns a count greater than 0.
C27_RangeCountAgree ==
    /\ ret.op = "RangeLookup"
          => /\ ret.exists <=> Count(S, ret.key, ret.high).count > 0
             /\ ret.err = Count(S, ret.key, ret.high).err
    /\ ret.op = "Count"
          => /\ ret.count > 0 <=> RangeLookup(S, ret.key, ret.high).exists
             /\ ret.err = RangeLookup(S, ret.key, ret.high).err

\* C27 happens: RangeLookup found a key in a range whose lower end is not
\* stored and whose upper end is the key found, and Count counts that key
C27_Witness ==
    /\ ret.op = "RangeLookup"
    /\ ret.exists
    /\ ~Lookup(S, ret.key).exists
    /\ lookupOrGreater(S, ret.key).key = ret.high
    /\ Count(S, ret.key, ret.high).count = 1

\* C28: termination.  On any built SuRF every Next() call returns after
\* finitely many steps; a fresh iterator has returned at most (number of
\* truncated keys) keys when it reaches ErrEndOfTrie, and once it has returned
\* that many the next call returns ErrEndOfTrie; therefore Count(low, high)
\* terminates for every low and high.
C28_Termination ==
    /\ pc = "next" ~> pc \in {"built", "panic"}
    /\ pc \in {"count", "countnext"} ~> pc = "built"
    /\ [](fresh => Len(yielded) <= Cardinality(TruncatedKeys))
    /\ [][(/\ pc = "next" /\ pc' # "next" /\ fresh
           /\ Len(yielded) = Cardinality(TruncatedKeys))
             => ret'.err = "ErrEndOfTrie"]_vars

\* C28 happens: a fresh iterator over two or more keys returned every key and
\* then ErrEndOfTrie
C28_Witness ==
    /\ pc = "built"
    /\ fresh
    /\ ret.op = "Next"
    /\ ret.err = "ErrEndOfTrie"
    /\ Len(yielded) = Cardinality(TruncatedKeys)
    /\ Len(yielded) >= 2

\* C29: the end of the trie is absorbing.  Once Next() has returned
\* ErrEndOfTrie on an iterator, the iterator is at NodeIndex = 0 with
\* nextEdge = 256 and empty stacks, and every later Next() on it, as long as
\* GoToChild is not called in between, returns ErrEndOfTrie again and leaves
\* the iterator unchanged.
C29_EndOfTrieAbsorbing ==
    [][(ret.op = "Next" /\ ret.err = "ErrEndOfTrie")
          => /\ (pc = "built" \/ pc = "next")
                   => /\ it.NodeIndex = 0
                      /\ it.nextEdge = BlockSize
                      /\ it.nodes = <<>> /\ it.edges = <<>> /\ it.keyPrefix = <<>>
             /\ pc = "next" => /\ pc' = "built"
                               /\ ret'.err = "ErrEndOfTrie"
                               /\ ret'.op = "Next"
                               /\ it' = it]_vars

\* C29 happens: Next() returned ErrEndOfTrie a second time in a row on an
\* iterator over stored keys
C29_Witness ==
    /\ pc = "built"
    /\ ret.op = "Next"
    /\ ret.err = "ErrEndOfTrie"
    /\ ret.count >= 2
    /\ keys # <<>>
    /\ it.nextEdge = BlockSize

\* the iterator's stacks describe the path from the root to its node
IteratorStacks(i) ==
    /\ Len(i.keyPrefix) = Len(i.nodes)
    /\ Len(i.edges) = Len(i.nodes)
    /\ i.edges = i.keyPrefix
    /\ i.keyPrefix \in NodePaths(TruncatedKeys) \cup {<<>>}
    /\ i.NodeIndex = NodeNumber(TruncatedKeys, i.keyPrefix)
    /\ \A d \in 1..Len(i.nodes) :
          i.nodes[d] = NodeNumber(TruncatedKeys, Prefix(i.keyPrefix, d - 1))
    /\ i.NodeIndex = 0 <=> i.nodes = <<>>

\* C30: the iterator stack invariant.  In every state reached from a fresh
\* iterator through GoToChild and Next on a built trie, keyPrefix, nodes and
\* edges have the same depth, keyPrefix and edges hold the same labels, the
\* depth is the depth of the current node, and NodeIndex = 0 iff the stacks
\* are empty; Next never pops an empty stack.
C30_StackInvariant ==
    /\ pc \in {"built", "next"} => IteratorStacks(it)
    /\ pc \in {"count", "countnext"} => IteratorStacks(ret.it)
    /\ pc # "panic"
    /\ ret.err # "panic"

\* C30 happens: Next() is about to ascend from a node two levels below the
\* root
C30_Witness ==
    /\ pc = "next"
    /\ it.nextEdge = BlockSize
    /\ Len(it.nodes) >= 2
    /\ it.NodeIndex >= 2

====
